---- MODULE Spec2Model ----
(***************************************************************************)
(* The response decoding pipeline of the METEOCAT client (client.go):      *)
(* Client.do and the functions it calls, over byte sequences.              *)
(*                                                                         *)
(* Text is modelled as Go holds it: a string or []byte is a sequence of    *)
(* bytes 0..255.  Bytes("...") turns a printable-ASCII literal into that   *)
(* sequence.                                                               *)
(***************************************************************************)
EXTENDS Integers, Sequences, FiniteSets, TLC

----------------------------------------------------------------------------
(* Bytes and text                                                          *)

\* The printable ASCII characters 0x20..0x5F and 0x61..0x7E, in code order
\* (0x60 is not used by any text of this model).
AsciiLow == " !\"#$%&'()*+,-./0123456789:;<=>?@ABCDEFGHIJKLMNOPQRSTUVWXYZ[\\]^_"

AsciiHigh == "abcdefghijklmnopqrstuvwxyz{|}~"

CodeOf(c) ==
    IF \E i \in 1..Len(AsciiLow) : SubSeq(AsciiLow, i, i) = c
    THEN 31 + (CHOOSE i \in 1..Len(AsciiLow) : SubSeq(AsciiLow, i, i) = c)
    ELSE 96 + (CHOOSE i \in 1..Len(AsciiHigh) : SubSeq(AsciiHigh, i, i) = c)

Bytes(s) == [i \in 1..Len(s) |-> CodeOf(SubSeq(s, i, i))]

\* strings.ToLower on ASCII text (bytes >= 0x80 are left alone for the
\* header values of this model, which are ASCII).
LowerByte(b) == IF b >= 65 /\ b <= 90 THEN b + 32 ELSE b

ToLower(s) == [i \in 1..Len(s) |-> LowerByte(s[i])]

HasPrefixAt(s, i, sub) ==
    /\ i + Len(sub) - 1 <= Len(s)
    /\ \A k \in 1..Len(sub) : s[i + k - 1] = sub[k]

\* strings.Contains
Contains(s, sub) == \E i \in 1..(Len(s) - Len(sub) + 1) : HasPrefixAt(s, i, sub)

\* strings.TrimSpace restricted to the ASCII white space of Go's fast path
\* ('\t', '\n', '\v', '\f', '\r', ' ').
IsSpace(b) == b \in {9, 10, 11, 12, 13, 32}

TrimSpace(s) ==
    LET keep == {i \in 1..Len(s) : ~IsSpace(s[i])}
    IN  IF keep = {} THEN <<>>
        ELSE LET lo == CHOOSE i \in keep : \A j \in keep : i <= j
                 hi == CHOOSE i \in keep : \A j \in keep : i >= j
             IN  SubSeq(s, lo, hi)

RECURSIVE Itoa(_)
\* %d of a non-negative or negative integer
Itoa(n) ==
    IF n < 0 THEN <<45>> \o Itoa(0 - n)
    ELSE IF n < 10 THEN <<48 + n>>
    ELSE Itoa(n \div 10) \o <<48 + (n % 10)>>

\* %q (strconv.Quote) on printable ASCII text: the text in double quotes,
\* with '"' and '\' escaped by a backslash.
Quote(s) ==
    LET RECURSIVE Esc(_)
        Esc(t) == IF t = <<>> THEN <<>>
                  ELSE (IF Head(t) \in {34, 92} THEN <<92, Head(t)>> ELSE <<Head(t)>>)
                       \o Esc(Tail(t))
    IN  <<34>> \o Esc(s) \o <<34>>

----------------------------------------------------------------------------
(* unicode/utf8                                                            *)

IsCont(b) == b >= 128 /\ b <= 191

\* Number of bytes of the valid UTF-8 encoding that starts at s[i], or 0
\* when s[i..] does not start with one (utf8.Valid's acceptance table).
Utf8SeqLen(s, i) ==
    LET b0 == s[i]
        n  == Len(s)
        b1 == IF i + 1 <= n THEN s[i + 1] ELSE 0
        b2 == IF i + 2 <= n THEN s[i + 2] ELSE 0
        b3 == IF i + 3 <= n THEN s[i + 3] ELSE 0
    IN  IF b0 < 128 THEN 1
        ELSE IF b0 >= 194 /\ b0 <= 223 THEN (IF IsCont(b1) THEN 2 ELSE 0)
        ELSE IF b0 = 224 THEN (IF b1 >= 160 /\ b1 <= 191 /\ IsCont(b2) THEN 3 ELSE 0)
        ELSE IF b0 = 237 THEN (IF b1 >= 128 /\ b1 <= 159 /\ IsCont(b2) THEN 3 ELSE 0)
        ELSE IF b0 >= 225 /\ b0 <= 239 THEN (IF IsCont(b1) /\ IsCont(b2) THEN 3 ELSE 0)
        ELSE IF b0 = 240 THEN (IF b1 >= 144 /\ b1 <= 191 /\ IsCont(b2) /\ IsCont(b3) THEN 4 ELSE 0)
        ELSE IF b0 >= 241 /\ b0 <= 243 THEN (IF IsCont(b1) /\ IsCont(b2) /\ IsCont(b3) THEN 4 ELSE 0)
        ELSE IF b0 = 244 THEN (IF b1 >= 128 /\ b1 <= 143 /\ IsCont(b2) /\ IsCont(b3) THEN 4 ELSE 0)
        ELSE 0

RECURSIVE Utf8ValidFrom(_, _)
Utf8ValidFrom(s, i) ==
    IF i > Len(s) THEN TRUE
    ELSE LET k == Utf8SeqLen(s, i)
         IN  IF k = 0 THEN FALSE ELSE Utf8ValidFrom(s, i + k)

\* utf8.Valid
Utf8Valid(s) == Utf8ValidFrom(s, 1)

\* string(rune): the UTF-8 encoding of a code point below 0x10000.
EncodeRune(r) ==
    IF r < 128 THEN <<r>>
    ELSE IF r < 2048 THEN <<192 + (r \div 64), 128 + (r % 64)>>
    ELSE <<224 + (r \div 4096), 128 + ((r \div 64) % 64), 128 + (r % 64)>>

----------------------------------------------------------------------------
(* mime.ParseMediaType, as far as normalizeJSONBytes uses it: whether the  *)
(* header parses, and the value of its charset parameter.  Header values   *)
(* are ASCII; RFC 2231 continuations (a '*' in a parameter name) are not   *)
(* among the headers of this model.                                        *)

\* ( ) < > @ , ; : \ " / [ ] ? =
TSpecials == {40, 41, 60, 62, 64, 44, 59, 58, 92, 34, 47, 91, 93, 63, 61}

IsTokenChar(b) == b > 32 /\ b < 127 /\ b \notin TSpecials

RECURSIVE TokenEnd(_, _)
\* consumeToken: the position after the longest token that starts at s[i]
TokenEnd(s, i) == IF i <= Len(s) /\ IsTokenChar(s[i]) THEN TokenEnd(s, i + 1) ELSE i

RECURSIVE SkipSpace(_, _)
\* strings.TrimLeftFunc(v, unicode.IsSpace)
SkipSpace(s, i) == IF i <= Len(s) /\ IsSpace(s[i]) THEN SkipSpace(s, i + 1) ELSE i

\* strings.Cut(v, ";"): the length of the text before the first ';'
BaseLen(v) ==
    IF \E i \in 1..Len(v) : v[i] = 59
    THEN (CHOOSE i \in 1..Len(v) : v[i] = 59 /\ \A j \in 1..(i - 1) : v[j] # 59) - 1
    ELSE Len(v)

\* checkMediaTypeDisposition after the type mt[1..e1-1] and a '/': the
\* subtype must be a token that ends mt
MediaSubtypeOk(mt, e1, e2) == e2 > e1 + 1 /\ e2 > Len(mt)

MediaTypeOkFrom(mt, e1) ==
    IF e1 = 1 THEN FALSE
    ELSE IF e1 > Len(mt) THEN TRUE
    ELSE IF mt[e1] # 47 THEN FALSE
    ELSE MediaSubtypeOk(mt, e1, TokenEnd(mt, e1 + 1))

\* checkMediaTypeDisposition: token [ "/" token ] and nothing else
MediaTypeOk(mt) == MediaTypeOkFrom(mt, TokenEnd(mt, 1))

RECURSIVE QuotedValue(_, _, _)
\* consumeValue on a quoted-string: i is the position being read, acc the
\* text collected so far.  [ok, value, next]
QuotedValue(v, i, acc) ==
    IF i > Len(v) THEN [ok |-> FALSE, value |-> <<>>, next |-> 0]
    ELSE IF v[i] = 34 THEN [ok |-> TRUE, value |-> acc, next |-> i + 1]
    ELSE IF v[i] = 92 /\ i + 1 <= Len(v) /\ v[i + 1] \in TSpecials
         THEN QuotedValue(v, i + 2, Append(acc, v[i + 1]))
    ELSE IF v[i] \in {10, 13} THEN [ok |-> FALSE, value |-> <<>>, next |-> 0]
    ELSE QuotedValue(v, i + 1, Append(acc, v[i]))

\* consumeMediaParam's failure: the code's key == ""
NoParam == [ok |-> FALSE, key |-> <<>>, value |-> <<>>, next |-> 0]

\* The quoted value q of parameter key
ParamQuoted(key, q) ==
    IF ~q.ok THEN NoParam ELSE [ok |-> TRUE, key |-> key, value |-> q.value, next |-> q.next]

\* The token value v[p5..p6-1] of parameter key
ParamToken(v, key, p5, p6) ==
    IF p6 = p5 THEN NoParam
    ELSE [ok |-> TRUE, key |-> key, value |-> SubSeq(v, p5, p6 - 1), next |-> p6]

\* consumeValue at v[p5]
ParamValueAt(v, key, p5) ==
    IF p5 > Len(v) THEN NoParam
    ELSE IF v[p5] # 34 THEN ParamToken(v, key, p5, TokenEnd(v, p5))
    ELSE ParamQuoted(key, QuotedValue(v, p5 + 1, <<>>))

\* The '=' expected at v[p4]
ParamEquals(v, key, p4) ==
    IF ~(p4 <= Len(v) /\ v[p4] = 61) THEN NoParam
    ELSE ParamValueAt(v, key, SkipSpace(v, p4 + 1))

\* The parameter name v[p2..p3-1]
ParamName(v, p2, p3) ==
    IF p3 = p2 THEN NoParam
    ELSE ParamEquals(v, ToLower(SubSeq(v, p2, p3 - 1)), SkipSpace(v, p3))

\* The parameter name expected at v[p2]
ParamNameAt(v, p2) == ParamName(v, p2, TokenEnd(v, p2))

\* The ';' expected at v[p1]
ParamSemicolon(v, p1) ==
    IF ~(p1 <= Len(v) /\ v[p1] = 59) THEN NoParam
    ELSE ParamNameAt(v, SkipSpace(v, p1 + 1))

\* consumeMediaParam at v[i..]: [ok, key, value, next]
ConsumeMediaParam(v, i) == ParamSemicolon(v, SkipSpace(v, i))

RECURSIVE ParseParams(_, _, _)

\* consumeMediaParam returned c for v[p..]
ParseParamsConsumed(v, p, params, c) ==
    IF ~c.ok
    THEN IF TrimSpace(SubSeq(v, p, Len(v))) = <<59>>
         THEN [err |-> FALSE, params |-> params]
         ELSE [err |-> TRUE, params |-> <<>>]
    ELSE IF \E k \in 1..Len(params) : params[k][1] = c.key /\ params[k][2] # c.value
    THEN [err |-> TRUE, params |-> <<>>]
    ELSE ParseParams(v, c.next, Append(params, <<c.key, c.value>>))

ParseParamsAt(v, p, params) ==
    IF p > Len(v) THEN [err |-> FALSE, params |-> params]
    ELSE ParseParamsConsumed(v, p, params, ConsumeMediaParam(v, p))

\* The parameter loop of ParseMediaType: params is the sequence of
\* <<key, value>> pairs stored so far.  [err, params]
ParseParams(v, i, params) == ParseParamsAt(v, SkipSpace(v, i), params)

\* ParseMediaType with the media type v[1..n]
ParseMediaTypeBase(v, n) ==
    IF ~MediaTypeOk(TrimSpace(ToLower(SubSeq(v, 1, n))))
    THEN [err |-> TRUE, params |-> <<>>]
    ELSE ParseParams(v, n + 1, <<>>)

\* mime.ParseMediaType: [err, params]
ParseMediaType(v) == ParseMediaTypeBase(v, BaseLen(v))

\* params["charset"]: the value stored under the key, "" when absent
ParamValue(params, key) ==
    IF \E k \in 1..Len(params) : params[k][1] = key
    THEN params[CHOOSE k \in 1..Len(params) : params[k][1] = key][2]
    ELSE <<>>

----------------------------------------------------------------------------
(* model.APIError and the functions of client.go                           *)

\* *model.APIError: a nil pointer, or a pointer to {Code, Message}
NilError == [isNil |-> TRUE, Code |-> 0, Message |-> <<>>]

APIError(code, message) == [isNil |-> FALSE, Code |-> code, Message |-> message]

contentTypeHeader == Bytes("Content-Type")

ApplicationJSON == Bytes("application/json")

PlusJSON == Bytes("+json")

\* s ends with sub
HasSuffix(s, sub) == Len(sub) <= Len(s) /\ HasPrefixAt(s, Len(s) - Len(sub) + 1, sub)

\* An isJSONContent that asks for +json at the end of the header
isJSONLowerSuffix(ct) == Contains(ct, ApplicationJSON) \/ HasSuffix(ct, PlusJSON)

\* isJSONContent with ct the lower-cased header
isJSONLower(ct) == Contains(ct, ApplicationJSON) \/ Contains(ct, PlusJSON)

isJSONContent(contentType) == isJSONLower(ToLower(contentType))

\* A latin1ToUTF8 whose lead byte is always 0xC2
RECURSIVE latin1ToUTF8FixedLead(_)
latin1ToUTF8FixedLead(input) ==
    IF input = <<>> THEN <<>>
    ELSE (IF Head(input) < 128 THEN <<Head(input)>>
          ELSE <<194, 128 + (Head(input) % 64)>>) \o latin1ToUTF8FixedLead(Tail(input))

RECURSIVE latin1ToUTF8(_)
latin1ToUTF8(input) ==
    IF input = <<>> THEN <<>>
    ELSE LET b == Head(input)
         IN  (IF b < 128 THEN <<b>>
              ELSE <<192 + (b \div 64), 128 + (b % 64)>>) \o latin1ToUTF8(Tail(input))

\* The latin9 map of latin9ToUTF8: byte -> rune
latin9 == (164 :> 8364) @@ (166 :> 352) @@ (168 :> 353) @@ (180 :> 381) @@
          (184 :> 382) @@ (188 :> 338) @@ (189 :> 339) @@ (190 :> 376)

\* A latin9ToUTF8 that converts only the bytes of the latin9 map
RECURSIVE latin9ToUTF8MappedOnly(_)
latin9ToUTF8MappedOnly(input) ==
    IF input = <<>> THEN <<>>
    ELSE (IF Head(input) \in DOMAIN latin9 THEN EncodeRune(latin9[Head(input)])
          ELSE <<Head(input)>>) \o latin9ToUTF8MappedOnly(Tail(input))

RECURSIVE latin9ToUTF8(_)
latin9ToUTF8(input) ==
    IF input = <<>> THEN <<>>
    ELSE LET b == Head(input)
         IN  (IF b \in DOMAIN latin9 THEN EncodeRune(latin9[b])
              ELSE IF b < 128 THEN <<b>>
              ELSE <<192 + (b \div 64), 128 + (b % 64)>>) \o latin9ToUTF8(Tail(input))

\* The win1252 table of windows1252ToUTF8: the runes of bytes 0x80..0x9F
win1252 == << 8364, 65533, 8218, 402,
              8222, 8230, 8224, 8225,
              710, 8240, 352, 8249,
              338, 65533, 381, 65533,
              65533, 8216, 8217, 8220,
              8221, 8226, 8211, 8212,
              732, 8482, 353, 8250,
              339, 65533, 382, 376 >>

\* A windows1252ToUTF8 that treats 0x80-0x9F as Latin-1 does
RECURSIVE windows1252ToUTF8NoTable(_)
windows1252ToUTF8NoTable(input) ==
    IF input = <<>> THEN <<>>
    ELSE (IF Head(input) < 128 THEN <<Head(input)>>
          ELSE <<192 + (Head(input) \div 64), 128 + (Head(input) % 64)>>)
         \o windows1252ToUTF8NoTable(Tail(input))

RECURSIVE windows1252ToUTF8(_)
windows1252ToUTF8(input) ==
    IF input = <<>> THEN <<>>
    ELSE LET b == Head(input)
         IN  (IF b < 128 THEN <<b>>
              ELSE IF b >= 160 THEN <<192 + (b \div 64), 128 + (b % 64)>>
              ELSE EncodeRune(win1252[b - 128 + 1])) \o windows1252ToUTF8(Tail(input))

CharsetParam == Bytes("charset")

\* The charset of a parsed header r
CharsetOfParsed(r) ==
    IF r.err THEN <<>> ELSE ToLower(TrimSpace(ParamValue(r.params, CharsetParam)))

\* The charset that normalizeJSONBytes switches on (lines 174-180): the
\* lower-cased, trimmed charset parameter, "" when the header is empty or
\* does not parse.
DeclaredCharset(contentType) ==
    IF contentType = <<>> THEN <<>> ELSE CharsetOfParsed(ParseMediaType(contentType))

\* The cases of the switch
CaseUTF8 == {<<>>, Bytes("utf-8"), Bytes("utf8")}

CaseLatin1 == {Bytes("iso-8859-1"), Bytes("iso8859-1"), Bytes("latin1")}

CaseLatin9 == {Bytes("iso-8859-15"), Bytes("iso8859-15"), Bytes("latin9")}

CaseWindows1252 == {Bytes("windows-1252"), Bytes("cp1252")}

UnsupportedCharsetText == Bytes("unsupported charset ")

InContentTypeText == Bytes(" in content-type ")

\* The switch of normalizeJSONBytes (lines 182-199)
\* A normalizeJSONBytes switch without the Latin-1 fallback of the UTF-8
\* case
normalizeSwitchNoFallback(contentType, respBytes, charset) ==
    IF charset \in CaseUTF8
    THEN [bytes |-> respBytes, err |-> NilError]
    ELSE IF charset \in CaseLatin1
    THEN [bytes |-> latin1ToUTF8(respBytes), err |-> NilError]
    ELSE IF charset \in CaseLatin9
    THEN [bytes |-> latin9ToUTF8(respBytes), err |-> NilError]
    ELSE IF charset \in CaseWindows1252
    THEN [bytes |-> windows1252ToUTF8(respBytes), err |-> NilError]
    ELSE IF Utf8Valid(respBytes)
    THEN [bytes |-> respBytes, err |-> NilError]
    ELSE [bytes |-> <<>>,
          err |-> APIError(0, UnsupportedCharsetText \o Quote(charset)
                              \o InContentTypeText \o Quote(contentType))]

\* A normalizeJSONBytes switch whose default branch hands the bytes back
\* without asking utf8.Valid
normalizeSwitchUnchecked(contentType, respBytes, charset) ==
    IF charset \in CaseUTF8
    THEN IF Utf8Valid(respBytes)
         THEN [bytes |-> respBytes, err |-> NilError]
         ELSE [bytes |-> latin1ToUTF8(respBytes), err |-> NilError]
    ELSE IF charset \in CaseLatin1
    THEN [bytes |-> latin1ToUTF8(respBytes), err |-> NilError]
    ELSE IF charset \in CaseLatin9
    THEN [bytes |-> latin9ToUTF8(respBytes), err |-> NilError]
    ELSE IF charset \in CaseWindows1252
    THEN [bytes |-> windows1252ToUTF8(respBytes), err |-> NilError]
    ELSE [bytes |-> respBytes, err |-> NilError]

normalizeSwitch(contentType, respBytes, charset) ==
    IF charset \in CaseUTF8
    THEN IF Utf8Valid(respBytes)
         THEN [bytes |-> respBytes, err |-> NilError]
         ELSE [bytes |-> latin1ToUTF8(respBytes), err |-> NilError]
    ELSE IF charset \in CaseLatin1
    THEN [bytes |-> latin1ToUTF8(respBytes), err |-> NilError]
    ELSE IF charset \in CaseLatin9
    THEN [bytes |-> latin9ToUTF8(respBytes), err |-> NilError]
    ELSE IF charset \in CaseWindows1252
    THEN [bytes |-> windows1252ToUTF8(respBytes), err |-> NilError]
    ELSE IF Utf8Valid(respBytes)
    THEN [bytes |-> respBytes, err |-> NilError]
    ELSE [bytes |-> <<>>,
          err |-> APIError(0, UnsupportedCharsetText \o Quote(charset)
                              \o InContentTypeText \o Quote(contentType))]

\* normalizeJSONBytes: [bytes, err]
normalizeJSONBytes(contentType, respBytes) ==
    IF Len(respBytes) = 0 THEN [bytes |-> respBytes, err |-> NilError]
    ELSE normalizeSwitch(contentType, respBytes, DeclaredCharset(contentType))

----------------------------------------------------------------------------
(* encoding/json: the scanner (checkValid) and the generic value it reads. *)
(* A value is a record tagged by t: "null", "bool" (b), "num" (lit, the    *)
(* literal's bytes), "str" (s, the unquoted bytes), "arr" (items) or "obj" *)
(* (members, the <<key, value>> pairs in input order).  \u escapes of      *)
(* surrogate halves are not among the bodies of this model.                *)

BadParse == [ok |-> FALSE, val |-> [t |-> "null"], next |-> 0]

IsDigit(b) == b >= 48 /\ b <= 57

RECURSIVE SkipWS(_, _)
\* the scanner's isSpace: ' ', '\t', '\r', '\n'
SkipWS(s, i) == IF i <= Len(s) /\ s[i] \in {32, 9, 13, 10} THEN SkipWS(s, i + 1) ELSE i

RECURSIVE DigitsEnd(_, _)
DigitsEnd(s, i) == IF i <= Len(s) /\ IsDigit(s[i]) THEN DigitsEnd(s, i + 1) ELSE i

\* e when the digits that start at s[q] are not empty, else 0
NonEmptyTo(e, q) == IF e > q THEN e ELSE 0

\* The integer part of a number: 0 | [1-9][0-9]*
NumIntEnd(s, p) ==
    IF p <= Len(s) /\ s[p] = 48 THEN p + 1
    ELSE IF p <= Len(s) /\ IsDigit(s[p]) THEN DigitsEnd(s, p)
    ELSE 0

\* The optional fraction: . [0-9]+
NumFracEnd(s, p) ==
    IF p = 0 THEN 0
    ELSE IF p <= Len(s) /\ s[p] = 46 THEN NonEmptyTo(DigitsEnd(s, p + 1), p + 1)
    ELSE p

\* The digits of an exponent
NumExpDigitsEnd(s, q) == NonEmptyTo(DigitsEnd(s, q), q)

\* The optional exponent: [eE] [+-]? [0-9]+
NumExpEnd(s, p) ==
    IF p = 0 THEN 0
    ELSE IF p <= Len(s) /\ s[p] \in {101, 69}
    THEN NumExpDigitsEnd(s, IF p + 1 <= Len(s) /\ s[p + 1] \in {43, 45} THEN p + 2 ELSE p + 1)
    ELSE p

\* The position after the JSON number that starts at s[i], 0 when there is
\* none: -? (0 | [1-9][0-9]*) (. [0-9]+)? ([eE] [+-]? [0-9]+)?
NumberEnd(s, i) ==
    NumExpEnd(s, NumFracEnd(s, NumIntEnd(s, IF i <= Len(s) /\ s[i] = 45 THEN i + 1 ELSE i)))

HexVal(b) == IF IsDigit(b) THEN b - 48
             ELSE IF b >= 97 /\ b <= 102 THEN b - 87
             ELSE IF b >= 65 /\ b <= 70 THEN b - 55
             ELSE -1

\* The byte a one-letter escape stands for, -1 for an invalid escape
EscapeByte(b) ==
    CASE b = 34 -> 34 [] b = 92 -> 92 [] b = 47 -> 47 [] b = 98 -> 8 [] b = 102 -> 12
      [] b = 110 -> 10 [] b = 114 -> 13 [] b = 116 -> 9 [] OTHER -> -1

RECURSIVE ParseString(_, _, _)

\* The rune of k bytes at s[i] (k = 0: an invalid byte, read as U+FFFD)
ParseStringRune(s, i, acc, k) ==
    IF k = 0 THEN ParseString(s, i + 1, acc \o <<239, 191, 189>>)
    ELSE ParseString(s, i + k, acc \o SubSeq(s, i, i + k - 1))

\* The string whose opening quote is before s[i]: scanned as the scanner
\* does and unquoted as unquote does (an invalid UTF-8 byte becomes U+FFFD).
ParseString(s, i, acc) ==
    IF i > Len(s) THEN BadParse
    ELSE IF s[i] = 34 THEN [ok |-> TRUE, val |-> [t |-> "str", s |-> acc], next |-> i + 1]
    ELSE IF s[i] < 32 THEN BadParse
    ELSE IF s[i] = 92
    THEN IF i + 1 > Len(s) THEN BadParse
         ELSE IF s[i + 1] = 117
         THEN IF i + 5 <= Len(s) /\ \A k \in 2..5 : HexVal(s[i + k]) >= 0
              THEN ParseString(s, i + 6,
                       acc \o EncodeRune(4096 * HexVal(s[i + 2]) + 256 * HexVal(s[i + 3])
                                         + 16 * HexVal(s[i + 4]) + HexVal(s[i + 5])))
              ELSE BadParse
         ELSE IF EscapeByte(s[i + 1]) >= 0
         THEN ParseString(s, i + 2, Append(acc, EscapeByte(s[i + 1])))
         ELSE BadParse
    ELSE ParseStringRune(s, i, acc, Utf8SeqLen(s, i))

RECURSIVE ParseValue(_, _)
RECURSIVE ParseItems(_, _, _, _)
RECURSIVE ParseMembers(_, _, _, _)

\* The number that ends before s[e] (e = 0: no number)
ParseNumber(s, p, e) ==
    IF e = 0 THEN BadParse
    ELSE [ok |-> TRUE, val |-> [t |-> "num", lit |-> SubSeq(s, p, e - 1)], next |-> e]

\* The JSON value that starts at s[p]
ParseValueAt(s, p) ==
    IF p > Len(s) THEN BadParse
    ELSE IF s[p] = 123 THEN ParseMembers(s, p + 1, <<>>, TRUE)
    ELSE IF s[p] = 91 THEN ParseItems(s, p + 1, <<>>, TRUE)
    ELSE IF s[p] = 34 THEN ParseString(s, p + 1, <<>>)
    ELSE IF s[p] = 45 \/ IsDigit(s[p]) THEN ParseNumber(s, p, NumberEnd(s, p))
    ELSE IF HasPrefixAt(s, p, <<110, 117, 108, 108>>)
    THEN [ok |-> TRUE, val |-> [t |-> "null"], next |-> p + 4]
    ELSE IF HasPrefixAt(s, p, <<116, 114, 117, 101>>)
    THEN [ok |-> TRUE, val |-> [t |-> "bool", b |-> TRUE], next |-> p + 4]
    ELSE IF HasPrefixAt(s, p, <<102, 97, 108, 115, 101>>)
    THEN [ok |-> TRUE, val |-> [t |-> "bool", b |-> FALSE], next |-> p + 5]
    ELSE BadParse

\* The JSON value that starts at or after s[i]: [ok, val, next]
ParseValue(s, i) == ParseValueAt(s, SkipWS(s, i))

\* After an element: ',' and more elements, or ']'
ParseItemsSep(s, q, acc) ==
    IF q > Len(s) THEN BadParse
    ELSE IF s[q] = 44 THEN ParseItems(s, q + 1, acc, FALSE)
    ELSE IF s[q] = 93 THEN [ok |-> TRUE, val |-> [t |-> "arr", items |-> acc], next |-> q + 1]
    ELSE BadParse

\* The element v has been read
ParseItemsAfter(s, v, acc) ==
    IF ~v.ok THEN BadParse ELSE ParseItemsSep(s, SkipWS(s, v.next), Append(acc, v.val))

ParseItemsAt(s, p, acc, first) ==
    IF p > Len(s) THEN BadParse
    ELSE IF first /\ s[p] = 93
    THEN [ok |-> TRUE, val |-> [t |-> "arr", items |-> acc], next |-> p + 1]
    ELSE ParseItemsAfter(s, ParseValue(s, p), acc)

\* The elements of an array after its '[' or after a ','
ParseItems(s, i, acc, first) == ParseItemsAt(s, SkipWS(s, i), acc, first)

\* After a member: ',' and more members, or '}'
ParseMembersSep(s, q, acc) ==
    IF q > Len(s) THEN BadParse
    ELSE IF s[q] = 44 THEN ParseMembers(s, q + 1, acc, FALSE)
    ELSE IF s[q] = 125 THEN [ok |-> TRUE, val |-> [t |-> "obj", members |-> acc], next |-> q + 1]
    ELSE BadParse

\* The member's value v has been read
ParseMembersAfterValue(s, key, v, acc) ==
    IF ~v.ok THEN BadParse
    ELSE ParseMembersSep(s, SkipWS(s, v.next), Append(acc, <<key, v.val>>))

\* The member's key has been read; c is the position of the ':'
ParseMembersColon(s, key, c, acc) ==
    IF c > Len(s) \/ s[c] # 58 THEN BadParse
    ELSE ParseMembersAfterValue(s, key, ParseValue(s, c + 1), acc)

\* The member's key k has been read
ParseMembersAfterKey(s, k, acc) ==
    IF ~k.ok THEN BadParse ELSE ParseMembersColon(s, k.val.s, SkipWS(s, k.next), acc)

ParseMembersAt(s, p, acc, first) ==
    IF p > Len(s) THEN BadParse
    ELSE IF first /\ s[p] = 125
    THEN [ok |-> TRUE, val |-> [t |-> "obj", members |-> acc], next |-> p + 1]
    ELSE IF s[p] # 34 THEN BadParse
    ELSE ParseMembersAfterKey(s, ParseString(s, p + 1, <<>>), acc)

\* The members of an object after its '{' or after a ','
ParseMembers(s, i, acc, first) == ParseMembersAt(s, SkipWS(s, i), acc, first)

\* The top-level value v has been read
ParseJSONEnd(s, v) ==
    IF v.ok /\ SkipWS(s, v.next) > Len(s) THEN [ok |-> TRUE, val |-> v.val]
    ELSE [ok |-> FALSE, val |-> [t |-> "null"]]

\* checkValid and the value read: one JSON value and nothing after it but
\* white space.  [ok, val]
ParseJSON(s) == ParseJSONEnd(s, ParseValue(s, 1))

----------------------------------------------------------------------------
(* json.Unmarshal into the two targets of this model: model.APIError and   *)
(* model.RegionList.  Field names are matched exactly or by ASCII case     *)
(* folding; the first type error is kept and decoding goes on.             *)

RECURSIVE Atoi(_, _)
Atoi(lit, acc) == IF lit = <<>> THEN acc ELSE Atoi(Tail(lit), 10 * acc + (Head(lit) - 48))

\* A number literal that strconv.ParseInt accepts: -? digits
IsIntLit(lit) ==
    LET d == IF lit # <<>> /\ lit[1] = 45 THEN Tail(lit) ELSE lit
    IN  d # <<>> /\ \A i \in 1..Len(d) : IsDigit(d[i])

IntOfLit(lit) == IF lit[1] = 45 THEN 0 - Atoi(Tail(lit), 0) ELSE Atoi(lit, 0)

\* A JSON value stored into an int: [val, bad]
DecodeInt(v, old) ==
    IF v.t = "null" THEN [val |-> old, bad |-> FALSE]
    ELSE IF v.t = "num" /\ IsIntLit(v.lit) THEN [val |-> IntOfLit(v.lit), bad |-> FALSE]
    ELSE [val |-> old, bad |-> TRUE]

\* A JSON value stored into a string: [val, bad]
DecodeString(v, old) ==
    IF v.t = "null" THEN [val |-> old, bad |-> FALSE]
    ELSE IF v.t = "str" THEN [val |-> v.s, bad |-> FALSE]
    ELSE [val |-> old, bad |-> TRUE]

\* The text of the error json.Unmarshal returns, by kind
JSONErrText(kind) ==
    IF kind = "syntax" THEN Bytes("invalid character looking for beginning of value")
    ELSE Bytes("json: cannot unmarshal value into Go value")

RECURSIVE DecodeAPIErrorMembers(_, _, _)

\* The member's value has been stored into Code (d) or Message (d)
DecodeAPIErrorCode(rest, cur, bad, d) ==
    DecodeAPIErrorMembers(rest, [cur EXCEPT !.Code = d.val], bad \/ d.bad)

DecodeAPIErrorMessage(rest, cur, bad, d) ==
    DecodeAPIErrorMembers(rest, [cur EXCEPT !.Message = d.val], bad \/ d.bad)

\* The members of an object stored into an APIError {Code "code", Message
\* "message"}: [val, bad]
DecodeAPIErrorMembers(members, cur, bad) ==
    IF members = <<>> THEN [val |-> cur, bad |-> bad]
    ELSE IF ToLower(Head(members)[1]) = <<99, 111, 100, 101>>
    THEN DecodeAPIErrorCode(Tail(members), cur, bad, DecodeInt(Head(members)[2], cur.Code))
    ELSE IF ToLower(Head(members)[1]) = <<109, 101, 115, 115, 97, 103, 101>>
    THEN DecodeAPIErrorMessage(Tail(members), cur, bad,
                               DecodeString(Head(members)[2], cur.Message))
    ELSE DecodeAPIErrorMembers(Tail(members), cur, bad)

\* The result of decoding the members of the top-level object
UnmarshalObjResult(d) == [err |-> IF d.bad THEN "type" ELSE "", val |-> d.val]

\* The parsed input p stored into an APIError holding cur
UnmarshalAPIErrorParsed(p, cur) ==
    IF ~p.ok THEN [err |-> "syntax", val |-> cur]
    ELSE IF p.val.t = "null" THEN [err |-> "", val |-> cur]
    ELSE IF p.val.t = "obj"
    THEN UnmarshalObjResult(DecodeAPIErrorMembers(p.val.members, cur, FALSE))
    ELSE [err |-> "type", val |-> cur]

\* json.Unmarshal(data, &apiErr), apiErr a model.APIError holding cur:
\* [err ("" when nil, else "syntax" or "type"), val]
UnmarshalAPIError(data, cur) == UnmarshalAPIErrorParsed(ParseJSON(data), cur)

\* model.Region
ZeroRegion == [Code |-> 0, Name |-> <<>>]

\* model.RegionList: a nil slice, or a slice of Regions
NilRegionList == [isNil |-> TRUE, items |-> <<>>]

RECURSIVE DecodeRegionMembers(_, _, _)

\* The member's value has been stored into Code (d) or Name (d)
DecodeRegionCode(rest, cur, bad, d) ==
    DecodeRegionMembers(rest, [cur EXCEPT !.Code = d.val], bad \/ d.bad)

DecodeRegionName(rest, cur, bad, d) ==
    DecodeRegionMembers(rest, [cur EXCEPT !.Name = d.val], bad \/ d.bad)

\* The members of an object stored into a Region {Code "codi", Name "nom"}
DecodeRegionMembers(members, cur, bad) ==
    IF members = <<>> THEN [val |-> cur, bad |-> bad]
    ELSE IF ToLower(Head(members)[1]) = <<99, 111, 100, 105>>
    THEN DecodeRegionCode(Tail(members), cur, bad, DecodeInt(Head(members)[2], cur.Code))
    ELSE IF ToLower(Head(members)[1]) = <<110, 111, 109>>
    THEN DecodeRegionName(Tail(members), cur, bad, DecodeString(Head(members)[2], cur.Name))
    ELSE DecodeRegionMembers(Tail(members), cur, bad)

\* A JSON value stored into a Region holding cur
DecodeRegion(v, cur) ==
    IF v.t = "null" THEN [val |-> cur, bad |-> FALSE]
    ELSE IF v.t = "obj" THEN DecodeRegionMembers(v.members, cur, FALSE)
    ELSE [val |-> cur, bad |-> TRUE]

RECURSIVE DecodeRegionItems(_, _, _, _)

\* The element has been decoded (d)
DecodeRegionItem(rest, old, acc, bad, d) ==
    DecodeRegionItems(rest, old, Append(acc, d.val), bad \/ d.bad)

\* The elements of an array stored into a slice: element i is decoded into
\* the slice's element i when it has one (len = cap), else into a zero
\* Region.
DecodeRegionItems(items, old, acc, bad) ==
    IF items = <<>> THEN [val |-> acc, bad |-> bad]
    ELSE DecodeRegionItem(Tail(items), old, acc, bad,
             DecodeRegion(Head(items),
                          IF Len(acc) + 1 <= Len(old) THEN old[Len(acc) + 1] ELSE ZeroRegion))

\* The result of decoding the elements of the top-level array
UnmarshalArrResult(d) ==
    [err |-> IF d.bad THEN "type" ELSE "", val |-> [isNil |-> FALSE, items |-> d.val]]

\* The parsed input p stored into a RegionList holding cur
UnmarshalRegionListParsed(p, cur) ==
    IF ~p.ok THEN [err |-> "syntax", val |-> cur]
    ELSE IF p.val.t = "null" THEN [err |-> "", val |-> NilRegionList]
    ELSE IF p.val.t = "arr"
    THEN UnmarshalArrResult(DecodeRegionItems(p.val.items, cur.items, <<>>, FALSE))
    ELSE [err |-> "type", val |-> cur]

\* json.Unmarshal(data, out), out a *model.RegionList pointing at cur:
\* [err, val]
UnmarshalRegionList(data, cur) == UnmarshalRegionListParsed(ParseJSON(data), cur)

----------------------------------------------------------------------------
(* package time, as MeteocatTime uses it.  A time.Time is the instant      *)
(* (days since 0001-01-01T00:00:00Z, second of the day, nanosecond) and    *)
(* the offset of its location in seconds.                                  *)

ZeroTime == [days |-> 0, sec |-> 0, nsec |-> 0, offset |-> 0]

\* Time.IsZero: the instant is January 1, year 1, 00:00:00 UTC
IsZero(t) == t.days = 0 /\ t.sec = 0 /\ t.nsec = 0

IsLeap(y) == y % 4 = 0 /\ (y % 100 # 0 \/ y % 400 = 0)

daysIn(m, y) ==
    IF m = 2 THEN (IF IsLeap(y) THEN 29 ELSE 28)
    ELSE IF m \in {4, 6, 9, 11} THEN 30 ELSE 31

\* Days of year y before month m
RECURSIVE DaysBeforeMonth(_, _)
DaysBeforeMonth(m, y) ==
    IF m <= 1 THEN 0 ELSE DaysBeforeMonth(m - 1, y) + daysIn(m - 1, y)

\* Days from 0001-01-01 to the first day of year y
DaysBeforeYear(y) ==
    (y - 1) * 365 + ((y - 1) \div 4) - ((y - 1) \div 100) + ((y - 1) \div 400)

\* Days from 0001-01-01 to y-m-d
DaysOf(y, m, d) == DaysBeforeYear(y) + DaysBeforeMonth(m, y) + d - 1

Min(a, b) == IF a < b THEN a ELSE b

\* The date of day yday (from 0) of year y
CivilOfMonth(y, m, yday) ==
    [year |-> y, month |-> m, day |-> yday - DaysBeforeMonth(m, y) + 1]

CivilFromYday(y, yday) ==
    CivilOfMonth(y, CHOOSE m \in 1..12 : /\ DaysBeforeMonth(m, y) <= yday
                                         /\ yday < DaysBeforeMonth(m, y) + daysIn(m, y),
                 yday)

\* The date of a day counted from 0001-01-01, by 400-, 100-, 4- and 1-year
\* cycles: [year, month, day]
CivilN1(n400, n100, n4, r, n1) ==
    CivilFromYday(400 * n400 + 100 * n100 + 4 * n4 + n1 + 1, r - 365 * n1)

CivilN4(n400, n100, r) ==
    CivilN1(n400, n100, r \div 1461, r % 1461, Min((r % 1461) \div 365, 3))

CivilN100(n400, r, n100) == CivilN4(n400, n100, r - 36524 * n100)

CivilFromDays(d) == CivilN100(d \div 146097, d % 146097, Min((d % 146097) \div 36524, 3))

\* The Time whose wall clock in a zone of the given offset reads days, sec
TimeOfWall(days, sec, nsec, offset) ==
    [days |-> days + ((sec - offset) \div 86400), sec |-> (sec - offset) % 86400,
     nsec |-> nsec, offset |-> offset]

\* The day and the second of the day that t's wall clock reads
WallDays(t) == t.days + ((t.sec + t.offset) \div 86400)

WallSec(t) == (t.sec + t.offset) % 86400

Pad2(n) == <<48 + (n \div 10), 48 + (n % 10)>>

Pad4(n) == <<48 + (n \div 1000), 48 + ((n \div 100) % 10), 48 + ((n \div 10) % 10), 48 + (n % 10)>>

Abs(n) == IF n < 0 THEN 0 - n ELSE n

\* The Z07:00 element of a layout
FormatZone(offset) ==
    IF offset = 0 THEN <<90>>
    ELSE <<IF offset < 0 THEN 45 ELSE 43>> \o Pad2(Abs(offset) \div 3600) \o <<58>>
         \o Pad2((Abs(offset) \div 60) % 60)

FormatCivil(date, sec, offset) ==
    Pad4(date.year) \o <<45>> \o Pad2(date.month) \o <<45>> \o Pad2(date.day) \o <<84>>
    \o Pad2(sec \div 3600) \o <<58>> \o Pad2((sec \div 60) % 60) \o <<58>> \o Pad2(sec % 60)
    \o FormatZone(offset)

\* Time.Format(time.RFC3339), for years 0000 to 9999
FormatRFC3339(t) == FormatCivil(CivilFromDays(WallDays(t)), WallSec(t), t.offset)

DigitsAt(v, i, n) == i + n - 1 <= Len(v) /\ \A k \in i..(i + n - 1) : IsDigit(v[k])

NumAt(v, i, n) == Atoi(SubSeq(v, i, i + n - 1), 0)

ByteAt(v, i, b) == i <= Len(v) /\ v[i] = b

TimeErr == [ok |-> FALSE, t |-> ZeroTime]

NoFields == [ok |-> FALSE, next |-> 0]

\* The range checks of Parse and the Time it returns
MakeTime(y, mo, d, h, mi, s, ns, off) ==
    IF mo < 1 \/ mo > 12 \/ d < 1 \/ d > daysIn(mo, y) \/ h >= 24 \/ mi >= 60 \/ s >= 60
    THEN TimeErr
    ELSE [ok |-> TRUE, t |-> TimeOfWall(DaysOf(y, mo, d), h * 3600 + mi * 60 + s, ns, off)]

\* The hour (one or two digits), ':' and the minute (two digits)
ParseClock(v, hlen) ==
    IF hlen = 0 \/ ~ByteAt(v, 12 + hlen, 58) \/ ~DigitsAt(v, 13 + hlen, 2) THEN NoFields
    ELSE [ok |-> TRUE, y |-> NumAt(v, 1, 4), mo |-> NumAt(v, 6, 2), d |-> NumAt(v, 9, 2),
          h |-> NumAt(v, 12, hlen), mi |-> NumAt(v, 13 + hlen, 2), next |-> 15 + hlen]

HourLen(v) == IF DigitsAt(v, 12, 2) THEN 2 ELSE IF DigitsAt(v, 12, 1) THEN 1 ELSE 0

\* The elements 2006-01-02T15:04 that the three layouts start with
ParsePrefix(v) ==
    IF /\ DigitsAt(v, 1, 4) /\ ByteAt(v, 5, 45) /\ DigitsAt(v, 6, 2) /\ ByteAt(v, 8, 45)
       /\ DigitsAt(v, 9, 2) /\ ByteAt(v, 11, 84)
    THEN ParseClock(v, HourLen(v))
    ELSE NoFields

RECURSIVE Pow10(_)
Pow10(k) == IF k = 0 THEN 1 ELSE 10 * Pow10(k - 1)

\* parseNanoseconds on the digits v[q..e-1]: at most nine digits count
Nanos(v, q, e) == NumAt(v, q, Min(e - q, 9)) * Pow10(9 - Min(e - q, 9))

\* A fractional second in the input that the layout does not name
ParseFraction(v, s, q) ==
    IF q + 1 <= Len(v) /\ v[q] \in {46, 44} /\ IsDigit(v[q + 1])
    THEN [ok |-> TRUE, s |-> s, ns |-> Nanos(v, q + 1, DigitsEnd(v, q + 1)),
          next |-> DigitsEnd(v, q + 1)]
    ELSE [ok |-> TRUE, s |-> s, ns |-> 0, next |-> q]

\* The elements :05 of a layout
ParseSeconds(v, p) ==
    IF ~ByteAt(v, p, 58) \/ ~DigitsAt(v, p + 1, 2) THEN NoFields
    ELSE ParseFraction(v, NumAt(v, p + 1, 2), p + 3)

\* The element Z07:00 of a layout
ParseZone(v, p) ==
    IF ByteAt(v, p, 90) THEN [ok |-> TRUE, offset |-> 0, next |-> p + 1]
    ELSE IF /\ p + 5 <= Len(v) /\ v[p] \in {43, 45} /\ DigitsAt(v, p + 1, 2)
            /\ v[p + 3] = 58 /\ DigitsAt(v, p + 4, 2)
    THEN [ok |-> TRUE,
          offset |-> (IF v[p] = 45 THEN -1 ELSE 1)
                     * (NumAt(v, p + 1, 2) * 3600 + NumAt(v, p + 4, 2) * 60),
          next |-> p + 6]
    ELSE NoFields

\* The literal Z that ends a layout
ParseLiteralZ(v, p) ==
    IF ByteAt(v, p, 90) THEN [ok |-> TRUE, offset |-> 0, next |-> p + 1] ELSE NoFields

TimeAfterZone(pre, sec, z, v) ==
    IF ~z.ok \/ z.next # Len(v) + 1 THEN TimeErr
    ELSE MakeTime(pre.y, pre.mo, pre.d, pre.h, pre.mi, sec.s, sec.ns, z.offset)

\* time.Parse(time.RFC3339, v): [ok, t]
TimeRFC3339Seconds(pre, sec, v) ==
    IF ~sec.ok THEN TimeErr ELSE TimeAfterZone(pre, sec, ParseZone(v, sec.next), v)

TimeRFC3339Prefix(pre, v) ==
    IF ~pre.ok THEN TimeErr ELSE TimeRFC3339Seconds(pre, ParseSeconds(v, pre.next), v)

ParseRFC3339(v) == TimeRFC3339Prefix(ParsePrefix(v), v)

\* time.Parse("2006-01-02T15:04Z", v)
TimeMinuteZPrefix(pre, v) ==
    IF ~pre.ok THEN TimeErr
    ELSE TimeAfterZone(pre, [ok |-> TRUE, s |-> 0, ns |-> 0, next |-> pre.next],
                       ParseLiteralZ(v, pre.next), v)

ParseMinuteZ(v) == TimeMinuteZPrefix(ParsePrefix(v), v)

\* time.Parse("2006-01-02T15:04:05Z", v)
TimeSecondZSeconds(pre, sec, v) ==
    IF ~sec.ok THEN TimeErr ELSE TimeAfterZone(pre, sec, ParseLiteralZ(v, sec.next), v)

TimeSecondZPrefix(pre, v) ==
    IF ~pre.ok THEN TimeErr ELSE TimeSecondZSeconds(pre, ParseSeconds(v, pre.next), v)

ParseSecondZ(v) == TimeSecondZPrefix(ParsePrefix(v), v)

----------------------------------------------------------------------------
(* json.Marshal of a string (escapeHTML on)                                *)

HexDigit(n) == IF n < 10 THEN 48 + n ELSE 87 + n

\* \u00XX
EscapeU00(b) == <<92, 117, 48, 48, HexDigit(b \div 16), HexDigit(b % 16)>>

\* The bytes that stand for the ASCII byte b inside a JSON string
MarshalByte(b) ==
    IF b = 34 THEN <<92, 34>>
    ELSE IF b = 92 THEN <<92, 92>>
    ELSE IF b = 10 THEN <<92, 110>>
    ELSE IF b = 13 THEN <<92, 114>>
    ELSE IF b = 9 THEN <<92, 116>>
    ELSE IF b < 32 \/ b \in {60, 62, 38} THEN EscapeU00(b)
    ELSE <<b>>

RECURSIVE MarshalStringFrom(_, _)
\* The rune of n bytes at s[i] (n = 0: an invalid byte, written as the escape of U+FFFD)
MarshalRune(s, i, n) ==
    IF n = 0 THEN <<92, 117, 102, 102, 102, 100>> \o MarshalStringFrom(s, i + 1)
    ELSE IF n = 3 /\ s[i] = 226 /\ s[i + 1] = 128 /\ s[i + 2] \in {168, 169}
    THEN <<92, 117, 50, 48, 50, HexDigit(s[i + 2] - 160)>> \o MarshalStringFrom(s, i + 3)
    ELSE SubSeq(s, i, i + n - 1) \o MarshalStringFrom(s, i + n)

MarshalStringFrom(s, i) ==
    IF i > Len(s) THEN <<>>
    ELSE IF s[i] < 128 THEN MarshalByte(s[i]) \o MarshalStringFrom(s, i + 1)
    ELSE MarshalRune(s, i, Utf8SeqLen(s, i))

\* json.Marshal(s) for a string s
MarshalString(s) == <<34>> \o MarshalStringFrom(s, 1) \o <<34>>

----------------------------------------------------------------------------
(* model.MeteocatTime (model/common.go); m is its embedded time.Time       *)

JSONNull == Bytes("null")

\* An UnmarshalJSON without the layout of minute precision
MeteocatTimeLayoutsNoMinute(m, raw, r1, r2, r3) ==
    IF r1.ok THEN [err |-> "", t |-> r1.t, text |-> <<>>]
    ELSE IF r3.ok THEN [err |-> "", t |-> r3.t, text |-> <<>>]
    ELSE [err |-> "parse time", t |-> m, text |-> Bytes("parse time ") \o Quote(raw)]

\* UnmarshalJSON after the three calls of time.Parse on raw; text is the
\* text of the error
MeteocatTimeLayouts(m, raw, r1, r2, r3) ==
    IF r1.ok THEN [err |-> "", t |-> r1.t, text |-> <<>>]
    ELSE IF r2.ok THEN [err |-> "", t |-> r2.t, text |-> <<>>]
    ELSE IF r3.ok THEN [err |-> "", t |-> r3.t, text |-> <<>>]
    ELSE [err |-> "parse time", t |-> m, text |-> Bytes("parse time ") \o Quote(raw)]

\* UnmarshalJSON after json.Unmarshal(data, &raw) stored d
MeteocatTimeRaw(m, d) ==
    IF d.bad THEN [err |-> "type", t |-> m, text |-> JSONErrText("type")]
    ELSE MeteocatTimeLayouts(m, d.val, ParseRFC3339(d.val), ParseMinuteZ(d.val),
                             ParseSecondZ(d.val))

MeteocatTimeParsed(m, p) ==
    IF ~p.ok THEN [err |-> "syntax", t |-> m, text |-> JSONErrText("syntax")]
    ELSE MeteocatTimeRaw(m, DecodeString(p.val, <<>>))

\* (*MeteocatTime).UnmarshalJSON: [err, t, text]
MeteocatTimeUnmarshalJSON(m, data) ==
    IF data = JSONNull THEN [err |-> "", t |-> m, text |-> <<>>]
    ELSE MeteocatTimeParsed(m, ParseJSON(data))

\* MeteocatTime.MarshalJSON
MeteocatTimeMarshalJSON(m) ==
    IF IsZero(m) THEN JSONNull ELSE MarshalString(FormatRFC3339(m))

----------------------------------------------------------------------------
(* model.StringOrFloat64 (model/forecast.go).  A float64 is held as the    *)
(* shortest decimal that names it: sign, digits without leading or         *)
(* trailing zeros, and the position of the decimal point.  This is exact   *)
(* for literals of up to 15 significant digits within float64's range,     *)
(* which is what the literals below are.                                   *)

RECURSIVE StripLeadingZeros(_)
StripLeadingZeros(d) ==
    IF d # <<>> /\ Head(d) = 48 THEN StripLeadingZeros(Tail(d)) ELSE d

RECURSIVE StripTrailingZeros(_)
StripTrailingZeros(d) ==
    IF d # <<>> /\ d[Len(d)] = 48 THEN StripTrailingZeros(SubSeq(d, 1, Len(d) - 1)) ELSE d

\* The value of the exponent part of lit that starts at lit[p] (p past
\* the end: none)
ExponentOf(lit, p) ==
    IF p > Len(lit) THEN 0
    ELSE IF lit[p + 1] = 45 THEN 0 - Atoi(SubSeq(lit, p + 2, Len(lit)), 0)
    ELSE IF lit[p + 1] = 43 THEN Atoi(SubSeq(lit, p + 2, Len(lit)), 0)
    ELSE Atoi(SubSeq(lit, p + 1, Len(lit)), 0)

\* The float64 of all the digits of a literal and the exponent of their
\* first digit
FloatOfDigits(neg, all, dp) ==
    IF StripLeadingZeros(all) = <<>> THEN [neg |-> neg, digits |-> <<>>, dp |-> 0]
    ELSE [neg |-> neg, digits |-> StripTrailingZeros(StripLeadingZeros(all)),
          dp |-> dp - (Len(all) - Len(StripLeadingZeros(all)))]

\* lit's integer part is lit[i..ie-1], its fraction ends before lit[fe]
FloatOfParts(lit, i, ie, fe) ==
    FloatOfDigits(i = 2,
                  SubSeq(lit, i, ie - 1) \o SubSeq(lit, ie + 1, fe - 1),
                  (ie - i) + ExponentOf(lit, fe))

FloatOfInt(lit, i, ie) == FloatOfParts(lit, i, ie, NumFracEnd(lit, ie))

\* strconv.ParseFloat on a JSON number literal: [neg, digits, dp]
ParseFloat(lit) ==
    FloatOfInt(lit, IF lit[1] = 45 THEN 2 ELSE 1, NumIntEnd(lit, IF lit[1] = 45 THEN 2 ELSE 1))

\* The exponent of %e: sign and at least two digits
FormatExp(e) ==
    <<101, IF e < 0 THEN 45 ELSE 43>>
    \o (IF Abs(e) < 10 THEN <<48, 48 + Abs(e)>> ELSE Itoa(Abs(e)))

\* %e with the shortest digits
FmtE(f) ==
    <<Head(f.digits)>>
    \o (IF Len(f.digits) > 1 THEN <<46>> \o Tail(f.digits) ELSE <<>>)
    \o FormatExp(f.dp - 1)

RECURSIVE Zeros(_)
Zeros(n) == IF n <= 0 THEN <<>> ELSE <<48>> \o Zeros(n - 1)

\* %f with the shortest digits
FmtF(f) ==
    (IF f.dp > 0
     THEN SubSeq(f.digits, 1, Min(Len(f.digits), f.dp)) \o Zeros(f.dp - Len(f.digits))
     ELSE <<48>>)
    \o (IF Len(f.digits) > f.dp
        THEN <<46>> \o Zeros(0 - f.dp) \o SubSeq(f.digits, IF f.dp > 0 THEN f.dp + 1 ELSE 1,
                                                 Len(f.digits))
        ELSE <<>>)

\* fmt.Sprintf("%v", num): %g with the shortest digits, %e when the
\* exponent is below -4 or at least 6
FormatV(f) ==
    (IF f.neg THEN <<45>> ELSE <<>>)
    \o (IF f.digits = <<>> THEN <<48>>
        ELSE IF f.dp - 1 < -4 \/ f.dp - 1 >= 6 THEN FmtE(f)
        ELSE FmtF(f))

\* An UnmarshalJSON that stores "0" for a token that is neither a string
\* nor a number
StringOrFloat64NumberZero(data, p) ==
    IF p.ok /\ p.val.t = "num" THEN FormatV(ParseFloat(p.val.lit)) ELSE <<48>>

\* UnmarshalJSON after json.Unmarshal(data, &str) failed
StringOrFloat64Number(data, p) ==
    IF p.ok /\ p.val.t = "num" THEN FormatV(ParseFloat(p.val.lit)) ELSE data

\* UnmarshalJSON after json.Unmarshal(data, &str) stored d
StringOrFloat64String(data, p, d) ==
    IF ~d.bad THEN d.val ELSE StringOrFloat64Number(data, p)

StringOrFloat64Parsed(data, p) ==
    IF ~p.ok THEN data ELSE StringOrFloat64String(data, p, DecodeString(p.val, <<>>))

\* (*StringOrFloat64).UnmarshalJSON: the text stored; it never fails
StringOrFloat64UnmarshalJSON(data) ==
    IF Len(data) = 0 THEN <<48>> ELSE StringOrFloat64Parsed(data, ParseJSON(data))

\* A MarshalJSON that writes a text that is a JSON number as that number
StringOrFloat64MarshalJSONBare(str) ==
    IF str # <<>> /\ NumberEnd(str, 1) = Len(str) + 1 THEN str ELSE MarshalString(str)

\* StringOrFloat64.MarshalJSON
StringOrFloat64MarshalJSON(str) == MarshalString(str)

----------------------------------------------------------------------------
(* json.Unmarshal into model.HourlyValue, whose fields are a               *)
(* StringOrFloat64 (valor) and a MeteocatTime (data).  Each field's        *)
(* UnmarshalJSON is handed the token of its member; the first error an     *)
(* UnmarshalJSON returns ends the decoding and is the error of Unmarshal.  *)

ZeroHourlyValue == [Value |-> <<>>, Time |-> ZeroTime]

RECURSIVE TokenOf(_)
RECURSIVE TokenOfItems(_)
RECURSIVE TokenOfMembers(_)

\* The token of the value v, without insignificant space and with its
\* strings spelled as json.Marshal spells them
TokenOf(v) ==
    IF v.t = "null" THEN JSONNull
    ELSE IF v.t = "bool" THEN (IF v.b THEN Bytes("true") ELSE Bytes("false"))
    ELSE IF v.t = "num" THEN v.lit
    ELSE IF v.t = "str" THEN MarshalString(v.s)
    ELSE IF v.t = "arr" THEN <<91>> \o TokenOfItems(v.items) \o <<93>>
    ELSE <<123>> \o TokenOfMembers(v.members) \o <<125>>

TokenOfItems(items) ==
    IF items = <<>> THEN <<>>
    ELSE TokenOf(Head(items)) \o (IF Len(items) > 1 THEN <<44>> ELSE <<>>)
             \o TokenOfItems(Tail(items))

TokenOfMembers(members) ==
    IF members = <<>> THEN <<>>
    ELSE MarshalString(Head(members)[1]) \o <<58>> \o TokenOf(Head(members)[2])
             \o (IF Len(members) > 1 THEN <<44>> ELSE <<>>) \o TokenOfMembers(Tail(members))

\* The text a failed MeteocatTime.UnmarshalJSON was given, for its error
RawTimeText(v) == IF v.t = "str" THEN v.s ELSE <<>>

RECURSIVE DecodeHourlyValueMembers(_, _)

\* A decoding that drops the error of MeteocatTime.UnmarshalJSON
DecodeHourlyValueTimeIgnored(rest, cur, v, u) ==
    DecodeHourlyValueMembers(rest, [cur EXCEPT !.Time = u.t])

\* The member data has been handed to MeteocatTime.UnmarshalJSON, which
\* returned u: its error ends the decoding
DecodeHourlyValueTime(rest, cur, v, u) ==
    IF u.err # "" THEN [err |-> u.err, val |-> cur, raw |-> RawTimeText(v)]
    ELSE DecodeHourlyValueMembers(rest, [cur EXCEPT !.Time = u.t])

DecodeHourlyValueMembers(members, cur) ==
    IF members = <<>> THEN [err |-> "", val |-> cur, raw |-> <<>>]
    ELSE IF ToLower(Head(members)[1]) = Bytes("valor")
    THEN DecodeHourlyValueMembers(Tail(members),
             [cur EXCEPT !.Value = StringOrFloat64UnmarshalJSON(TokenOf(Head(members)[2]))])
    ELSE IF ToLower(Head(members)[1]) = Bytes("data")
    THEN DecodeHourlyValueTime(Tail(members), cur, Head(members)[2],
             MeteocatTimeUnmarshalJSON(cur.Time, TokenOf(Head(members)[2])))
    ELSE DecodeHourlyValueMembers(Tail(members), cur)

UnmarshalHourlyValueParsed(p, cur) ==
    IF ~p.ok THEN [err |-> "syntax", val |-> cur, raw |-> <<>>]
    ELSE IF p.val.t = "null" THEN [err |-> "", val |-> cur, raw |-> <<>>]
    ELSE IF p.val.t = "obj" THEN DecodeHourlyValueMembers(p.val.members, cur)
    ELSE [err |-> "type", val |-> cur, raw |-> <<>>]

UnmarshalHourlyValue(data, cur) == UnmarshalHourlyValueParsed(ParseJSON(data), cur)

\* json.Unmarshal(data, out) for the target types of this model: a
\* *model.HourlyValue or a *model.RegionList holding cur
Unmarshal(data, cur) ==
    IF "Time" \in DOMAIN cur THEN UnmarshalHourlyValue(data, cur)
    ELSE UnmarshalRegionList(data, cur)

\* The %v of the error u.err that json.Unmarshal returned
UnmarshalErrText(u) ==
    IF u.err = "parse time" THEN Bytes("parse time ") \o Quote(u.raw) ELSE JSONErrText(u.err)

----------------------------------------------------------------------------
(* The functions of client.go that Client.do calls                         *)

\* net/http.StatusText for the status codes of this model; "" for a code
\* the standard library knows no reason phrase of
StatusText(code) ==
    CASE code = 101 -> Bytes("Switching Protocols")
      [] code = 200 -> Bytes("OK")
      [] code = 204 -> Bytes("No Content")
      [] code = 300 -> Bytes("Multiple Choices")
      [] code = 401 -> Bytes("Unauthorized")
      [] code = 404 -> Bytes("Not Found")
      [] code = 500 -> Bytes("Internal Server Error")
      [] OTHER -> <<>>

StatusOK == 200

StatusNoContent == 204

StatusMultipleChoices == 300

\* A validateHTTPOut that lets a nil pointer through
validateHTTPOutAllowsNilPtr(out) ==
    IF out.kind = "nil" THEN APIError(0, Bytes("no output provided"))
    ELSE IF out.kind = "nonptr" THEN APIError(0, Bytes("out must be a non-nil pointer"))
    ELSE NilError

\* validateHTTPOut.  out is [kind, val]: kind "nil" (no value), "nonptr" (a
\* value that is no pointer), "nilptr" (a nil pointer) or "ptr" (a pointer
\* to the RegionList val).
validateHTTPOut(out) ==
    IF out.kind = "nil" THEN APIError(0, Bytes("no output provided"))
    ELSE IF out.kind # "ptr" THEN APIError(0, Bytes("out must be a non-nil pointer"))
    ELSE NilError

\* net/http's validMethod, after NewRequestWithContext's default of "GET"
ValidMethod(m) == m = <<>> \/ \A i \in 1..Len(m) : IsTokenChar(m[i])

\* prepareRequest: the error of http.NewRequestWithContext, wrapped
prepareRequest(m) ==
    IF ValidMethod(m) THEN NilError
    ELSE APIError(0, Bytes("create request: net/http: invalid method ") \o Quote(m))

\* io.ReadAll(io.LimitReader(body, n)) on a body stream [data, fails,
\* errWithData, errText]: the stream yields data and then ends with EOF, or
\* with an error when fails; errWithData tells whether that error comes
\* from the Read call that yields the last bytes or from the next one.
\* [bytes, failed, pos]
ReadAllLimited(stream, n) ==
    LET avail == Len(stream.data)
        got   == IF avail < n THEN avail ELSE n
    IN  [bytes  |-> SubSeq(stream.data, 1, got),
         failed |-> stream.fails /\ (avail < n \/ (avail = n /\ stream.errWithData)),
         pos    |-> got]

\* A readResponseBody that refuses a body of exactly maxResponseBody bytes
readResponseBodyReadAtLimit(cl, r, rd) ==
    IF rd.failed
    THEN [bytes |-> <<>>, pos |-> rd.pos,
          err |-> APIError(r.StatusCode, Bytes("read response: ") \o r.Body.errText)]
    ELSE IF Len(rd.bytes) >= cl.maxResponseBody
    THEN [bytes |-> <<>>, pos |-> rd.pos,
          err |-> APIError(r.StatusCode, Bytes("response body too large: limit ")
                               \o Itoa(cl.maxResponseBody) \o Bytes(" bytes"))]
    ELSE [bytes |-> rd.bytes, pos |-> rd.pos, err |-> NilError]

\* readResponseBody after io.ReadAll returned rd
\* A readResponseBody that hands on the bytes read before a read error
readResponseBodyReadKeepsPartial(cl, r, rd) ==
    IF Len(rd.bytes) > cl.maxResponseBody
    THEN [bytes |-> <<>>, pos |-> rd.pos,
          err |-> APIError(r.StatusCode, Bytes("response body too large: limit ")
                               \o Itoa(cl.maxResponseBody) \o Bytes(" bytes"))]
    ELSE [bytes |-> rd.bytes, pos |-> rd.pos, err |-> NilError]

readResponseBodyRead(cl, r, rd) ==
    IF rd.failed
    THEN [bytes |-> <<>>, pos |-> rd.pos,
          err |-> APIError(r.StatusCode, Bytes("read response: ") \o r.Body.errText)]
    ELSE IF Len(rd.bytes) > cl.maxResponseBody
    THEN [bytes |-> <<>>, pos |-> rd.pos,
          err |-> APIError(r.StatusCode, Bytes("response body too large: limit ")
                               \o Itoa(cl.maxResponseBody) \o Bytes(" bytes"))]
    ELSE [bytes |-> rd.bytes, pos |-> rd.pos, err |-> NilError]

\* readResponseBody: [bytes, err, pos]
readResponseBody(cl, r) ==
    readResponseBodyRead(cl, r, ReadAllLimited(r.Body, cl.maxResponseBody + 1))

\* A handleSuccessResponse that drops the error of json.Unmarshal
handleSuccessUnmarshalledLenient(r, out, u) ==
    [err |-> NilError, out |-> [out EXCEPT !.val = u.val], decoded |-> TRUE]

\* handleSuccessResponse after json.Unmarshal returned u
handleSuccessUnmarshalled(r, out, u) ==
    IF u.err # ""
    THEN [err |-> APIError(r.StatusCode, Bytes("unmarshal response: ") \o UnmarshalErrText(u)),
          out |-> [out EXCEPT !.val = u.val], decoded |-> TRUE]
    ELSE [err |-> NilError, out |-> [out EXCEPT !.val = u.val], decoded |-> TRUE]

\* A handleSuccessResponse that unmarshals a non-empty body whatever its
\* content type
handleSuccessCheckedAnyType(r, respBytes, out, contentType, isJSON) ==
    IF Len(respBytes) = 0
    THEN IF r.StatusCode = StatusNoContent
         THEN [err |-> NilError, out |-> out, decoded |-> FALSE]
         ELSE IF ~isJSON
         THEN [err |-> APIError(r.StatusCode,
                          Bytes("empty response body for content-type ") \o Quote(contentType)),
               out |-> out, decoded |-> FALSE]
         ELSE [err |-> APIError(r.StatusCode, Bytes("empty response body")),
               out |-> out, decoded |-> FALSE]
    ELSE [err |-> NilError, out |-> [out EXCEPT !.val = UnmarshalRegionList(respBytes, out.val).val],
          decoded |-> TRUE]

\* A handleSuccessResponse that checks the content type before emptiness
handleSuccessCheckedTypeFirst(r, respBytes, out, contentType, isJSON) ==
    IF Len(respBytes) = 0 /\ r.StatusCode = StatusNoContent
    THEN [err |-> NilError, out |-> out, decoded |-> FALSE]
    ELSE IF ~isJSON
    THEN [err |-> APIError(r.StatusCode, Bytes("unexpected content-type ") \o Quote(contentType)),
          out |-> out, decoded |-> FALSE]
    ELSE IF Len(respBytes) = 0
    THEN [err |-> APIError(r.StatusCode, Bytes("empty response body")),
          out |-> out, decoded |-> FALSE]
    ELSE handleSuccessUnmarshalled(r, out, UnmarshalRegionList(respBytes, out.val))

\* A handleSuccessResponse that accepts an empty 204 only under a JSON-like
\* content type
handleSuccessCheckedNoContentJSON(r, respBytes, out, contentType, isJSON) ==
    IF Len(respBytes) = 0
    THEN IF ~isJSON
         THEN [err |-> APIError(r.StatusCode,
                          Bytes("empty response body for content-type ") \o Quote(contentType)),
               out |-> out, decoded |-> FALSE]
         ELSE IF r.StatusCode = StatusNoContent
         THEN [err |-> NilError, out |-> out, decoded |-> FALSE]
         ELSE [err |-> APIError(r.StatusCode, Bytes("empty response body")),
               out |-> out, decoded |-> FALSE]
    ELSE IF ~isJSON
    THEN [err |-> APIError(r.StatusCode, Bytes("unexpected content-type ") \o Quote(contentType)),
          out |-> out, decoded |-> FALSE]
    ELSE handleSuccessUnmarshalled(r, out, UnmarshalRegionList(respBytes, out.val))

\* handleSuccessResponse with isJSON computed
handleSuccessChecked(r, respBytes, out, contentType, isJSON) ==
    IF Len(respBytes) = 0
    THEN IF r.StatusCode = StatusNoContent
         THEN [err |-> NilError, out |-> out, decoded |-> FALSE]
         ELSE IF ~isJSON
         THEN [err |-> APIError(r.StatusCode,
                          Bytes("empty response body for content-type ") \o Quote(contentType)),
               out |-> out, decoded |-> FALSE]
         ELSE [err |-> APIError(r.StatusCode, Bytes("empty response body")),
               out |-> out, decoded |-> FALSE]
    ELSE IF ~isJSON
    THEN [err |-> APIError(r.StatusCode, Bytes("unexpected content-type ") \o Quote(contentType)),
          out |-> out, decoded |-> FALSE]
    ELSE handleSuccessUnmarshalled(r, out, Unmarshal(respBytes, out.val))

\* handleSuccessResponse: [err, out, decoded]; decoded tells whether
\* json.Unmarshal was called on the body
handleSuccessResponse(r, respBytes, out) ==
    handleSuccessChecked(r, respBytes, out, r.ContentType, isJSONContent(r.ContentType))

\* A handleErrorResponse that always reports the HTTP status as the code
handleErrorUnmarshalledStatusOnly(r, respBytes, u) ==
    IF u.err # "" \/ (u.val.Message = <<>> /\ u.val.Code = 0)
    THEN APIError(r.StatusCode, respBytes)
    ELSE APIError(r.StatusCode, u.val.Message)

\* A handleErrorResponse without the all-empty test on the payload
handleErrorUnmarshalledNoEmptyTest(r, respBytes, u) ==
    IF u.err # ""
    THEN APIError(r.StatusCode, respBytes)
    ELSE IF u.val.Code = 0
    THEN APIError(r.StatusCode, u.val.Message)
    ELSE APIError(u.val.Code, u.val.Message)

\* handleErrorResponse after json.Unmarshal returned u
handleErrorUnmarshalled(r, respBytes, u) ==
    IF u.err # "" \/ (u.val.Message = <<>> /\ u.val.Code = 0)
    THEN APIError(r.StatusCode, respBytes)
    ELSE IF u.val.Code = 0
    THEN APIError(r.StatusCode, u.val.Message)
    ELSE APIError(u.val.Code, u.val.Message)

\* A handleErrorResponse that leaves the code unset for an empty body
handleErrorResponseUnsetCode(r, respBytes) ==
    IF Len(respBytes) = 0 THEN APIError(0, StatusText(r.StatusCode))
    ELSE handleErrorUnmarshalled(r, respBytes,
                                 UnmarshalAPIError(respBytes, [Code |-> 0, Message |-> <<>>]))

\* handleErrorResponse
handleErrorResponse(r, respBytes) ==
    IF Len(respBytes) = 0 THEN APIError(r.StatusCode, StatusText(r.StatusCode))
    ELSE handleErrorUnmarshalled(r, respBytes,
                                 UnmarshalAPIError(respBytes, [Code |-> 0, Message |-> <<>>]))

----------------------------------------------------------------------------
(* The inputs of the model                                                 *)

\* The client's maxResponseBody.  NewClient sets 10 << 20; the model uses
\* a limit that the bodies below reach and exceed.
MaxResponseBody == 48

\* A body of n bytes that is a JSON array: '[', n - 2 spaces, ']'
PadBody(n) == <<91>> \o [i \in 1..(n - 2) |-> 32] \o <<93>>

Statuses == {101, 200, 204, 299, 300, 401, 404, 599}

ContentTypes ==
    { <<>>,
      Bytes("application/json"),
      Bytes("application/json; charset=UTF-8"),
      Bytes("application/problem+json; charset=\"koi8-r\""),
      Bytes("application/json; charset=ISO-8859-15"),
      Bytes("text/html"),
      Bytes("text/plain; charset=KOI8-R") }

BodyStationNotFound == Bytes("{\"code\":404,\"message\":\"Station not found\"}")

BodyInvalidKey == Bytes("Invalid API key")

BodyRegions == Bytes("[{\"codi\":1,\"nom\":\"Alt Camp\"}]")

\* [{"codi":13,"nom":"Barcelones"}] with the e-grave as the Latin-1 byte
\* 0xE8: not valid UTF-8
BodyRegionsLatin1 == Bytes("[{\"codi\":13,\"nom\":\"Barcelon") \o <<232>> \o Bytes("s\"}]")

\* {"message":"Peticio..."} with the o-acute as the Latin-1 byte 0xF3
BodyMessageLatin1 == Bytes("{\"message\":\"Petici") \o <<243>> \o Bytes("\"}")

Bodies ==
    { <<>>,
      BodyStationNotFound,
      BodyInvalidKey,
      BodyRegions,
      BodyRegionsLatin1,
      BodyMessageLatin1,
      Bytes("{\"code\":1001,\"message\":\"Quota exceeded\"}"),
      Bytes("{\"message\":\"Forbidden\"}"),
      Bytes("{\"code\":7,\"message\":\"\"}"),
      Bytes("{\"code\":0,\"message\":\"\"}"),
      Bytes("{\"code\":\"x\",\"message\":\"m\"}"),
      Bytes("[{\"codi\":\"x\",\"nom\":\"Anoia\"}]"),
      Bytes("{}"),
      Bytes("[]"),
      Bytes("null"),
      PadBody(MaxResponseBody),
      PadBody(MaxResponseBody + 1),
      PadBody(MaxResponseBody + 2) }

\* The body streams: every body ending with EOF, and some ending with a
\* read error (a connection reset, a cancelled context).
Streams ==
    { [data |-> b, fails |-> FALSE, errWithData |-> FALSE, errText |-> <<>>] : b \in Bodies }
    \cup
    { [data |-> b, fails |-> TRUE, errWithData |-> w, errText |-> Bytes("context canceled")] :
        b \in { <<>>, BodyInvalidKey, BodyRegions, PadBody(MaxResponseBody),
                PadBody(MaxResponseBody + 1), PadBody(MaxResponseBody + 2) },
        w \in BOOLEAN }

Responses ==
    { [StatusCode |-> st, ContentType |-> ct, Body |-> b] :
        st \in Statuses, ct \in ContentTypes, b \in Streams }

\* The errors of httpClient.Do
TransportErrors == { Bytes("dial tcp: connection refused"), Bytes("context deadline exceeded") }

Methods == { Bytes("GET"), Bytes("BAD METHOD") }

\* The targets a caller passes as out
Targets ==
    { [kind |-> "nil", val |-> NilRegionList],
      [kind |-> "nonptr", val |-> NilRegionList],
      [kind |-> "nilptr", val |-> NilRegionList],
      [kind |-> "ptr", val |-> NilRegionList],
      [kind |-> "ptr", val |-> [isNil |-> FALSE,
                                items |-> <<[Code |-> 9, Name |-> Bytes("Old")]>>]] }

NoResponse == [StatusCode |-> 0, ContentType |-> <<>>,
               Body |-> [data |-> <<>>, fails |-> FALSE, errWithData |-> FALSE, errText |-> <<>>]]

----------------------------------------------------------------------------
(* Client.do as a state machine: one action per call that do makes         *)

VARIABLES
    pc,         \* where the call of do stands
    c,          \* the *Client
    method,     \* do's method argument
    out,        \* do's target
    outArg,     \* the target as the caller passed it
    requests,   \* the number of requests handed to httpClient.Do
    hasResp,    \* whether httpClient.Do returned a response
    resp,       \* that response
    bodyPos,    \* the number of bytes read from resp.Body
    bodyEnded,  \* whether resp.Body has been read to EOF or to an error
    bodyClosed, \* the number of calls of resp.Body.Close
    respBytes,  \* the bytes readAndNormalizeJSON holds
    decoded,    \* whether json.Unmarshal was called on a 2xx body
    steps,      \* the calls made so far, in order
    ret,        \* what do returns
    norm,       \* a direct call of normalizeJSONBytes: its arguments and result
    call,       \* a direct call of another function: its name, arguments and result
    ep          \* a call of an endpoint function: its DoFunc, target and result

vars == <<pc, c, method, out, outArg, requests, hasResp, resp, bodyPos, bodyEnded,
          bodyClosed, respBytes, decoded, steps, ret, norm, call, ep>>

\* No direct call of a function, no call of an endpoint function
NoCall == [fn |-> "", called |-> FALSE]

NoEndpoint == [fn |-> "", pc |-> "idle"]

\* No direct call of normalizeJSONBytes
NoNorm == [contentType |-> <<>>, input |-> <<>>, called |-> FALSE,
           result |-> [bytes |-> <<>>, err |-> NilError]]

\* NewClient
NewClient(apiKey) ==
    [baseURL |-> Bytes("https://api.meteo.cat"), userAgent |-> Bytes("meteocat-go/0.1.0"),
     maxResponseBody |-> MaxResponseBody, apiKey |-> apiKey]

Init ==
    /\ pc = "idle"
    /\ c = NewClient(Bytes("secret-key"))
    /\ method = <<>>
    /\ out = [kind |-> "nil", val |-> NilRegionList]
    /\ outArg = out
    /\ requests = 0
    /\ hasResp = FALSE
    /\ resp = NoResponse
    /\ bodyPos = 0
    /\ bodyEnded = FALSE
    /\ bodyClosed = 0
    /\ respBytes = <<>>
    /\ decoded = FALSE
    /\ steps = <<>>
    /\ ret = NilError
    /\ norm = NoNorm
    /\ call = NoCall
    /\ ep = NoEndpoint

\* A caller calls do(ctx, m, resource, o)
Call ==
    /\ pc = "idle"
    /\ \E m \in Methods, o \in Targets :
          /\ method' = m
          /\ out' = o
          /\ outArg' = o
    /\ pc' = "validate"
    /\ UNCHANGED <<norm, call, ep, c, requests, hasResp, resp, bodyPos, bodyEnded, bodyClosed, respBytes,
                   decoded, steps, ret>>

\* do returns err when it is not nil, else goes on at next
ReturnOrGo(err, next) ==
    /\ ret' = err
    /\ pc' = IF err.isNil THEN next ELSE "done"

\* do, lines 283-285
Validate ==
    /\ pc = "validate"
    /\ ReturnOrGo(validateHTTPOut(out), "prepare")
    /\ steps' = Append(steps, "validate")
    /\ UNCHANGED <<norm, call, ep, c, method, out, outArg, requests, hasResp, resp, bodyPos, bodyEnded,
                   bodyClosed, respBytes, decoded>>

\* do, lines 288-292
PrepareRequest ==
    /\ pc = "prepare"
    /\ ReturnOrGo(prepareRequest(method), "send")
    /\ steps' = Append(steps, "prepare")
    /\ UNCHANGED <<norm, call, ep, c, method, out, outArg, requests, hasResp, resp, bodyPos, bodyEnded,
                   bodyClosed, respBytes, decoded>>

\* A do that reports a failed request as a 502 of the API
doTransportErrorAsStatus(e) == APIError(502, Bytes("request to METEOCAT API: ") \o e)

\* do, line 296: the error for a failure e of httpClient.Do
doTransportError(e) == APIError(0, Bytes("request to METEOCAT API: ") \o e)

\* do, lines 294-297: the transport fails
HttpDoFails ==
    /\ pc = "send"
    /\ requests' = requests + 1
    /\ \E e \in TransportErrors : ret' = doTransportError(e)
    /\ pc' = "done"
    /\ steps' = Append(steps, "send")
    /\ UNCHANGED <<norm, call, ep, c, method, out, outArg, hasResp, resp, bodyPos, bodyEnded, bodyClosed,
                   respBytes, decoded>>

\* do, lines 294-301: the transport returns a response; the drain and close
\* of its body are deferred
HttpDoResponds ==
    /\ pc = "send"
    /\ requests' = requests + 1
    /\ \E r \in Responses : resp' = r
    /\ hasResp' = TRUE
    /\ pc' = "read"
    /\ steps' = Append(steps, "send")
    /\ UNCHANGED <<norm, call, ep, c, method, out, outArg, bodyPos, bodyEnded, bodyClosed, respBytes,
                   decoded, ret>>

\* readResponseBody returned rd
ReadBodyDone(rd) ==
    /\ respBytes' = rd.bytes
    /\ bodyPos' = rd.pos
    /\ bodyEnded' = (rd.pos = Len(resp.Body.data) /\
                       (Len(resp.Body.data) < c.maxResponseBody + 1 \/ resp.Body.errWithData))
    /\ ret' = rd.err
    /\ pc' = IF rd.err.isNil THEN "normalize" ELSE "deferred"

\* readAndNormalizeJSON, lines 158-161
ReadBody ==
    /\ pc = "read"
    /\ ReadBodyDone(readResponseBody(c, resp))
    /\ steps' = Append(steps, "read")
    /\ UNCHANGED <<norm, call, ep, c, method, out, outArg, requests, hasResp, resp, bodyClosed, decoded>>

\* A do that goes on to classify the status after a charset failure
NormalizeDoneGoesOn(n) ==
    /\ respBytes' = n.bytes
    /\ ret' = n.err
    /\ pc' = "classify"

\* normalizeJSONBytes returned n
NormalizeDone(n) ==
    /\ respBytes' = n.bytes
    /\ ret' = n.err
    /\ pc' = IF n.err.isNil THEN "classify" ELSE "deferred"

\* readAndNormalizeJSON, line 163
Normalize ==
    /\ pc = "normalize"
    /\ NormalizeDone(normalizeJSONBytes(resp.ContentType, respBytes))
    /\ steps' = Append(steps, "normalize")
    /\ UNCHANGED <<norm, call, ep, c, method, out, outArg, requests, hasResp, resp, bodyPos, bodyEnded,
                   bodyClosed, decoded>>

\* A do that resets the target before it handles an error status
HandleErrorResetsTarget ==
    /\ pc = "classify"
    /\ resp.StatusCode < StatusOK \/ resp.StatusCode >= StatusMultipleChoices
    /\ ret' = handleErrorResponse(resp, respBytes)
    /\ out' = [out EXCEPT !.val = NilRegionList]
    /\ pc' = "deferred"
    /\ steps' = Append(steps, "handleError")
    /\ UNCHANGED <<norm, call, ep, c, method, outArg, requests, hasResp, resp, bodyPos, bodyEnded,
                   bodyClosed, respBytes, decoded>>

\* do, lines 309-311
HandleError ==
    /\ pc = "classify"
    /\ resp.StatusCode < StatusOK \/ resp.StatusCode >= StatusMultipleChoices
    /\ ret' = handleErrorResponse(resp, respBytes)
    /\ pc' = "deferred"
    /\ steps' = Append(steps, "handleError")
    /\ UNCHANGED <<norm, call, ep, c, method, out, outArg, requests, hasResp, resp, bodyPos, bodyEnded,
                   bodyClosed, respBytes, decoded>>

\* handleSuccessResponse returned h
HandleSuccessDone(h) ==
    /\ ret' = h.err
    /\ out' = h.out
    /\ decoded' = h.decoded

\* do, lines 314-318
HandleSuccess ==
    /\ pc = "classify"
    /\ ~(resp.StatusCode < StatusOK \/ resp.StatusCode >= StatusMultipleChoices)
    /\ HandleSuccessDone(handleSuccessResponse(resp, respBytes, out))
    /\ pc' = "deferred"
    /\ steps' = Append(steps, "handleSuccess")
    /\ UNCHANGED <<norm, call, ep, c, method, outArg, requests, hasResp, resp, bodyPos, bodyEnded,
                   bodyClosed, respBytes>>

\* A deferred function that closes the body without draining it
DeferredCloseOnly ==
    /\ pc = "deferred"
    /\ bodyClosed' = bodyClosed + 1
    /\ pc' = "done"
    /\ steps' = Append(steps, "deferred")
    /\ UNCHANGED <<norm, call, ep, c, method, out, outArg, requests, hasResp, resp, respBytes,
                   decoded, ret, bodyPos, bodyEnded>>

\* The deferred function of lines 298-301, run as do returns
Deferred ==
    /\ pc = "deferred"
    /\ bodyPos' = Len(resp.Body.data)
    /\ bodyEnded' = TRUE
    /\ bodyClosed' = bodyClosed + 1
    /\ pc' = "done"
    /\ steps' = Append(steps, "deferred")
    /\ UNCHANGED <<norm, call, ep, c, method, out, outArg, requests, hasResp, resp, respBytes, decoded, ret>>

Next ==
    \/ Call
    \/ Validate
    \/ PrepareRequest
    \/ HttpDoFails
    \/ HttpDoResponds
    \/ ReadBody
    \/ Normalize
    \/ HandleError
    \/ HandleSuccess
    \/ Deferred

Spec == Init /\ [][Next]_vars

----------------------------------------------------------------------------
(* normalizeJSONBytes called on its own, on every byte sequence of up to   *)
(* MaxNormLen bytes over NormBytes and every header of NormContentTypes    *)

MaxNormLen == 3

\* 'A', the two bytes of U+00E9 in UTF-8 (0xC3 0xA9), 0xE9 (U+00E9 in
\* Latin-1), 0x80 and 0xA4 (the bytes Windows-1252 and Latin-9 remap)
NormBytes == {65, 195, 169, 233, 128, 164}

NormInputs == UNION { [1..n -> NormBytes] : n \in 0..MaxNormLen }

NormContentTypes ==
    { <<>>,
      Bytes("application/json"),
      Bytes("application/json; charset=utf-8"),
      Bytes("application/json;charset=UTF8"),
      Bytes("application/json; charset"),
      Bytes("application/json; charset=ISO-8859-1"),
      Bytes("application/json; charset=\" Latin1 \""),
      Bytes("application/json; charset=iso8859-15"),
      Bytes("application/json; charset=Latin9"),
      Bytes("application/json; charset=windows-1252"),
      Bytes("text/html; charset=CP1252"),
      Bytes("text/plain; charset=KOI8-R"),
      Bytes("application/json; charset=\"utf-16\"") }

InitNorm ==
    /\ pc = "idle"
    /\ c = NewClient(Bytes("secret-key"))
    /\ method = <<>>
    /\ out = [kind |-> "nil", val |-> NilRegionList]
    /\ outArg = out
    /\ requests = 0
    /\ hasResp = FALSE
    /\ resp = NoResponse
    /\ bodyPos = 0
    /\ bodyEnded = FALSE
    /\ bodyClosed = 0
    /\ respBytes = <<>>
    /\ decoded = FALSE
    /\ steps = <<>>
    /\ ret = NilError
    /\ call = NoCall
    /\ ep = NoEndpoint
    /\ \E ct \in NormContentTypes, b \in NormInputs :
          norm = [contentType |-> ct, input |-> b, called |-> FALSE,
                  result |-> [bytes |-> <<>>, err |-> NilError]]

\* normalizeJSONBytes(contentType, input)
NormApply ==
    /\ ~norm.called
    /\ norm' = [norm EXCEPT !.called = TRUE,
                            !.result = normalizeJSONBytes(norm.contentType, norm.input)]
    /\ UNCHANGED <<pc, c, method, out, outArg, requests, hasResp, resp, bodyPos, bodyEnded,
                   bodyClosed, respBytes, decoded, steps, ret, call, ep>>

NextNorm == NormApply

SpecNorm == InitNorm /\ [][NextNorm]_vars

----------------------------------------------------------------------------
(* latin1ToUTF8, latin9ToUTF8 and windows1252ToUTF8 called on their own,   *)
(* on every single byte and on short sequences of bytes around the ranges  *)
(* the three functions distinguish.                                        *)

\* The state of a Client on which do is not running
DoIdle ==
    /\ pc = "idle"
    /\ c = NewClient(Bytes("secret-key"))
    /\ method = <<>>
    /\ out = [kind |-> "nil", val |-> NilRegionList]
    /\ outArg = out
    /\ requests = 0
    /\ hasResp = FALSE
    /\ resp = NoResponse
    /\ bodyPos = 0
    /\ bodyEnded = FALSE
    /\ bodyClosed = 0
    /\ respBytes = <<>>
    /\ decoded = FALSE
    /\ steps = <<>>
    /\ ret = NilError

MaxConvLen == 3

\* 'A', 0x7F, 0x80, 0x81, 0xA4 and 0xFF
ConvBytes == {65, 127, 128, 129, 164, 255}

ConvInputs ==
    { <<b>> : b \in 0..255 } \cup UNION { [1..n -> ConvBytes] : n \in 0..MaxConvLen }

Converters == {"latin1ToUTF8", "latin9ToUTF8", "windows1252ToUTF8"}

InitConv ==
    /\ DoIdle
    /\ norm = NoNorm
    /\ ep = NoEndpoint
    /\ \E fn \in Converters, b \in ConvInputs :
          call = [fn |-> fn, input |-> b, called |-> FALSE, result |-> <<>>]

\* call returns with result r
CallReturns(r) ==
    /\ ~call.called
    /\ call' = [call EXCEPT !.called = TRUE, !.result = r]
    /\ UNCHANGED <<pc, c, method, out, outArg, requests, hasResp, resp, bodyPos, bodyEnded,
                   bodyClosed, respBytes, decoded, steps, ret, norm, ep>>

Latin1Apply ==
    /\ call.fn = "latin1ToUTF8"
    /\ CallReturns(latin1ToUTF8(call.input))

Latin9Apply ==
    /\ call.fn = "latin9ToUTF8"
    /\ CallReturns(latin9ToUTF8(call.input))

Windows1252Apply ==
    /\ call.fn = "windows1252ToUTF8"
    /\ CallReturns(windows1252ToUTF8(call.input))

NextConv ==
    \/ Latin1Apply
    \/ Latin9Apply
    \/ Windows1252Apply

SpecConv == InitConv /\ [][NextConv]_vars

----------------------------------------------------------------------------
(* isJSONContent called on its own, on media types in several spellings    *)
(* with and without parameters.                                            *)

HeaderTypes ==
    { <<>>, Bytes("application/json"), Bytes("APPLICATION/JSON"), Bytes("Application/Json"),
      Bytes("application/problem+json"), Bytes("application/vnd.api+JSON"),
      Bytes("application/ld+json"), Bytes("text/html"), Bytes("text/plain"),
      Bytes("application/xml"), Bytes("text/json"), Bytes("application/jsonp"),
      Bytes("text/x+jsonp"), Bytes("application/x-json"), Bytes("json"),
      Bytes("application/hal+xml") }

HeaderParams ==
    { <<>>, Bytes("; charset=utf-8"), Bytes(";charset=ISO-8859-1"),
      Bytes("; profile=\"x+json\""), Bytes(" ") }

Headers == { t \o p : t \in HeaderTypes, p \in HeaderParams }

InitJSONContent ==
    /\ DoIdle
    /\ norm = NoNorm
    /\ ep = NoEndpoint
    /\ \E h \in Headers :
          call = [fn |-> "isJSONContent", input |-> h, called |-> FALSE, result |-> FALSE]

IsJSONContentApply ==
    /\ call.fn = "isJSONContent"
    /\ CallReturns(isJSONContent(call.input))

NextJSONContent == IsJSONContentApply

SpecJSONContent == InitJSONContent /\ [][NextJSONContent]_vars

----------------------------------------------------------------------------
(* A MeteocatTime decoded from a wire value, encoded again, and the        *)
(* encoding decoded into a fresh MeteocatTime.                             *)

TimeDates ==
    { Bytes("2020-08-20"), Bytes("1992-05-11"), Bytes("2024-02-29"), Bytes("2023-02-29"),
      Bytes("0001-01-01"), Bytes("2020-12-31"), Bytes("2020-13-01") }

TimeClocks ==
    { Bytes("00:00"), Bytes("15:30"), Bytes("23:59:59"), Bytes("00:00:00"),
      Bytes("12:00:00.5"), Bytes("24:00"), Bytes("1:02:03") }

TimeZones == { Bytes("Z"), Bytes("+02:00"), Bytes("-05:30"), <<>>, Bytes("z") }

\* The wire values: JSON strings of date, 'T', clock and zone, and three
\* values that are no timestamp text
TimeWires ==
    { <<34>> \o d \o <<84>> \o k \o z \o <<34>> : d \in TimeDates, k \in TimeClocks, z \in TimeZones }
    \cup { JSONNull, Bytes("1597881600"), Bytes("\"\"") }

\* The values of the MeteocatTime that UnmarshalJSON is called on: the zero
\* value, and 2019-01-01T00:00:00Z left by an earlier decode
TimeReceivers == { ZeroTime, TimeOfWall(DaysOf(2019, 1, 1), 0, 0, 0) }

InitTime ==
    /\ DoIdle
    /\ norm = NoNorm
    /\ ep = NoEndpoint
    /\ \E w \in TimeWires, r \in TimeReceivers :
          call = [fn |-> "MeteocatTime", input |-> w, prior |-> r, stage |-> "start",
                  called |-> FALSE,
                  err |-> "", errText |-> <<>>, m |-> ZeroTime, encoded |-> <<>>,
                  err2 |-> "", m2 |-> ZeroTime]

CallUnchanged ==
    UNCHANGED <<pc, c, method, out, outArg, requests, hasResp, resp, bodyPos, bodyEnded,
                bodyClosed, respBytes, decoded, steps, ret, norm, ep>>

\* UnmarshalJSON on the receiver call.prior returned u
TimeDecoded(u) ==
    /\ call' = [call EXCEPT !.stage = IF u.err = "" THEN "decoded" ELSE "failed",
                            !.called = TRUE, !.err = u.err, !.errText = u.text, !.m = u.t]
    /\ CallUnchanged

TimeDecode ==
    /\ call.fn = "MeteocatTime"
    /\ call.stage = "start"
    /\ TimeDecoded(MeteocatTimeUnmarshalJSON(call.prior, call.input))

TimeEncode ==
    /\ call.fn = "MeteocatTime"
    /\ call.stage = "decoded"
    /\ call' = [call EXCEPT !.stage = "encoded", !.encoded = MeteocatTimeMarshalJSON(call.m)]
    /\ CallUnchanged

\* UnmarshalJSON of the encoding into a zero MeteocatTime returned u
TimeDecodedAgain(u) ==
    /\ call' = [call EXCEPT !.stage = "redecoded", !.err2 = u.err, !.m2 = u.t]
    /\ CallUnchanged

TimeDecodeAgain ==
    /\ call.fn = "MeteocatTime"
    /\ call.stage = "encoded"
    /\ TimeDecodedAgain(MeteocatTimeUnmarshalJSON(ZeroTime, call.encoded))

NextTime ==
    \/ TimeDecode
    \/ TimeEncode
    \/ TimeDecodeAgain

SpecTime == InitTime /\ [][NextTime]_vars

----------------------------------------------------------------------------
(* A text d decoded into a StringOrFloat64 twice, as the JSON string "d"   *)
(* and as the bare wire value d, and both values encoded again.            *)

\* JSON number literals
ScalarLiterals ==
    { Bytes("16.9"), Bytes("16.90"), Bytes("0"), Bytes("-0"), Bytes("0.0"), Bytes("1"),
      Bytes("-3.5"), Bytes("100"), Bytes("123456"), Bytes("1000000"), Bytes("1234567"),
      Bytes("0.0001"), Bytes("0.00001"), Bytes("1e3"), Bytes("1E2"), Bytes("1.5e-7"),
      Bytes("2.50e1"), Bytes("1013.25"), Bytes("0.1"), Bytes("12.0"), Bytes("-0.5"),
      Bytes("99999.9"), Bytes("123456789012345"), Bytes("20.5"), Bytes("10"), Bytes("0.05") }

\* Wire values that are no number
ScalarOthers ==
    { <<>>, Bytes("null"), Bytes("true"), Bytes("{\"a\":1}"), Bytes("abc"), Bytes("1."),
      Bytes("01"), Bytes("+1"), Bytes("\"x\"") }

InitScalar ==
    /\ DoIdle
    /\ norm = NoNorm
    /\ ep = NoEndpoint
    /\ \E d \in ScalarLiterals \cup ScalarOthers :
          call = [fn |-> "StringOrFloat64", input |-> d, stage |-> "start", called |-> FALSE,
                  fromString |-> <<>>, fromBare |-> <<>>,
                  stringEncoded |-> <<>>, bareEncoded |-> <<>>]

\* UnmarshalJSON of the JSON string "d"
ScalarDecodeString ==
    /\ call.fn = "StringOrFloat64"
    /\ call.stage = "start"
    /\ call' = [call EXCEPT !.stage = "string", !.called = TRUE,
                            !.fromString = StringOrFloat64UnmarshalJSON(MarshalString(call.input))]
    /\ CallUnchanged

\* UnmarshalJSON of the bare d
ScalarDecodeBare ==
    /\ call.fn = "StringOrFloat64"
    /\ call.stage = "string"
    /\ call' = [call EXCEPT !.stage = "bare",
                            !.fromBare = StringOrFloat64UnmarshalJSON(call.input)]
    /\ CallUnchanged

ScalarEncodeString ==
    /\ call.fn = "StringOrFloat64"
    /\ call.stage = "bare"
    /\ call' = [call EXCEPT !.stage = "stringEncoded",
                            !.stringEncoded = StringOrFloat64MarshalJSON(call.fromString)]
    /\ CallUnchanged

ScalarEncodeBare ==
    /\ call.fn = "StringOrFloat64"
    /\ call.stage = "stringEncoded"
    /\ call' = [call EXCEPT !.stage = "encoded",
                            !.bareEncoded = StringOrFloat64MarshalJSON(call.fromBare)]
    /\ CallUnchanged

NextScalar ==
    \/ ScalarDecodeString
    \/ ScalarDecodeBare
    \/ ScalarEncodeString
    \/ ScalarEncodeBare

SpecScalar == InitScalar /\ [][NextScalar]_vars

----------------------------------------------------------------------------
(* Two clients that differ in their API key only, each asked for its       *)
(* String() and each calling do with the same arguments against the same   *)
(* transport: the request a client builds carries its key in a header,     *)
(* and the transport sees that request.                                    *)

BoolText(b) == IF b THEN Bytes("true") ELSE Bytes("false")

\* A Client.String that prints the key itself
ClientStringWithKey(cl) ==
    Bytes("meteocat.Client{BaseURL:") \o cl.baseURL \o Bytes(", APIKey:") \o cl.apiKey
        \o Bytes("}")

\* Client.String
ClientString(cl) ==
    Bytes("meteocat.Client{BaseURL:") \o cl.baseURL \o Bytes(", APIKeySet:")
        \o BoolText(cl.apiKey # <<>>) \o Bytes("}")

\* strings.TrimLeft(resource, "/")
RECURSIVE TrimLeftSlash(_)
TrimLeftSlash(s) == IF s # <<>> /\ s[1] = 47 THEN TrimLeftSlash(Tail(s)) ELSE s

\* The request prepareRequest builds for do's method and resource
NewRequest(cl, m, resource) ==
    [Method |-> IF m = <<>> THEN Bytes("GET") ELSE m,
     URL    |-> cl.baseURL \o <<47>> \o TrimLeftSlash(resource),
     Header |-> [Accept |-> Bytes("application/json"), UserAgent |-> cl.userAgent,
                 XApiKey |-> cl.apiKey]]

\* httpguts.ValidHeaderFieldValue: no control byte but the tab
ValidHeaderFieldValue(v) == \A i \in 1..Len(v) : ~((v[i] < 32 \/ v[i] = 127) /\ v[i] # 9)

\* The text of the *url.Error http.Client.Do wraps a failure in
URLErrorText(req, e) ==
    <<req.Method[1]>> \o ToLower(Tail(req.Method)) \o <<32>> \o Quote(req.URL) \o Bytes(": ") \o e

\* httpClient.Do(req) over a transport tr that fails with tr.errText or
\* answers tr.resp: the transport refuses a request with an invalid header
\* value before it sends anything, and names the header, not its value
httpClientDo(req, tr) ==
    IF ~ValidHeaderFieldValue(req.Header.XApiKey)
    THEN [sent |-> TRUE, failed |-> TRUE, resp |-> NoResponse,
          errText |-> URLErrorText(req,
                          Bytes("net/http: invalid header field value for \"X-Api-Key\""))]
    ELSE IF tr.fails
    THEN [sent |-> TRUE, failed |-> TRUE, resp |-> NoResponse,
          errText |-> URLErrorText(req, tr.errText)]
    ELSE [sent |-> TRUE, failed |-> FALSE, resp |-> tr.resp, errText |-> <<>>]

NotSent == [sent |-> FALSE, failed |-> FALSE, resp |-> NoResponse, errText |-> <<>>]

\* do, lines 314-318, after handleSuccessResponse returned h
doSucceeded(t, h) == [ret |-> h.err, out |-> h.out, sent |-> t]

\* do, lines 304-318, after normalizeJSONBytes returned n
doNormalized(t, o, n) ==
    IF ~n.err.isNil THEN [ret |-> n.err, out |-> o, sent |-> t]
    ELSE IF t.resp.StatusCode < StatusOK \/ t.resp.StatusCode >= StatusMultipleChoices
    THEN [ret |-> handleErrorResponse(t.resp, n.bytes), out |-> o, sent |-> t]
    ELSE doSucceeded(t, handleSuccessResponse(t.resp, n.bytes, o))

\* do, lines 303-318, after readResponseBody returned rd
doRead(t, o, rd) ==
    IF ~rd.err.isNil THEN [ret |-> rd.err, out |-> o, sent |-> t]
    ELSE doNormalized(t, o, normalizeJSONBytes(t.resp.ContentType, rd.bytes))

\* do, lines 294-318, after httpClient.Do returned t
doSent(cl, o, t) ==
    IF t.failed
    THEN [ret |-> doTransportError(t.errText), out |-> o, sent |-> t]
    ELSE doRead(t, o, readResponseBody(cl, t.resp))

\* do as one step: what it returns, what it leaves in the target, and what
\* httpClient.Do returned to it
do(cl, m, resource, o, tr) ==
    IF ~validateHTTPOut(o).isNil THEN [ret |-> validateHTTPOut(o), out |-> o, sent |-> NotSent]
    ELSE IF ~prepareRequest(m).isNil THEN [ret |-> prepareRequest(m), out |-> o, sent |-> NotSent]
    ELSE doSent(cl, o, httpClientDo(NewRequest(cl, m, resource), tr))

\* Valid keys, and one with a line feed in it
APIKeys == { Bytes("secret-key"), Bytes("k-7f3a9"), Bytes("two") \o <<10>> \o Bytes("lines") }

\* A 401 body that repeats the key the server was sent
BodyKeyEcho == Bytes("{\"message\":\"Unknown key secret-key\"}")

KeyTransports ==
    { [fails |-> TRUE, errText |-> e, resp |-> NoResponse] : e \in TransportErrors }
    \cup
    { [fails |-> FALSE, errText |-> <<>>, resp |-> r] :
        r \in { x \in Responses :
                  /\ x.StatusCode \in {200, 401}
                  /\ x.ContentType \in {Bytes("application/json"), Bytes("text/html")}
                  /\ x.Body.data \in {<<>>, BodyInvalidKey, BodyRegions, BodyStationNotFound}
                  /\ ~x.Body.errWithData }
              \cup { [StatusCode |-> 401, ContentType |-> Bytes("application/json"),
                      Body |-> [data |-> BodyKeyEcho, fails |-> FALSE, errWithData |-> FALSE,
                                errText |-> <<>>]] } }

KeyTargets == { o \in Targets : o.kind \in {"nil", "ptr"} }

ResourceRegions == Bytes("/referencia/v1/comarques")

NoDoResult == [ret |-> NilError, out |-> [kind |-> "nil", val |-> NilRegionList], sent |-> NotSent]

InitKey ==
    /\ DoIdle
    /\ norm = NoNorm
    /\ ep = NoEndpoint
    /\ \E k1 \in APIKeys, k2 \in APIKeys, m \in Methods, o \in KeyTargets, tr \in KeyTransports :
          /\ k1 # k2
          /\ call = [fn |-> "Client", stage |-> "start", called |-> FALSE,
                     a |-> NewClient(k1), b |-> NewClient(k2),
                     method |-> m, out |-> o, transport |-> tr,
                     aString |-> <<>>, bString |-> <<>>,
                     aDo |-> NoDoResult, bDo |-> NoDoResult]

\* String() of both clients
KeyString ==
    /\ call.fn = "Client"
    /\ call.stage = "start"
    /\ call' = [call EXCEPT !.stage = "string", !.called = TRUE,
                            !.aString = ClientString(call.a),
                            !.bString = ClientString(call.b)]
    /\ CallUnchanged

\* do of both clients, with the same arguments, over the same transport
KeyDo ==
    /\ call.fn = "Client"
    /\ call.stage = "string"
    /\ call' = [call EXCEPT !.stage = "done",
                            !.aDo = do(call.a, call.method, ResourceRegions, call.out,
                                       call.transport),
                            !.bDo = do(call.b, call.method, ResourceRegions, call.out,
                                       call.transport)]
    /\ CallUnchanged

NextKey ==
    \/ KeyString
    \/ KeyDo

SpecKey == InitKey /\ [][NextKey]_vars

----------------------------------------------------------------------------
(* The endpoint functions.  Each builds its resource, calls its DoFunc on  *)
(* a local target and returns.  The DoFunc is a mock, which may write into *)
(* the target and may fail, or, for Client.Regions, the client's do.       *)

stationMetadataPath == Bytes("/xema/v1/estacions/metadades")

stationObservationsPath == Bytes("/xema/v1/estacions/mesurades")

variablesMetadataPath == Bytes("/xema/v1/variables/mesurades/metadades")

municipalHourlyForecastPath == Bytes("/pronostic/v1/municipalHoraria")

UpperHex(n) == IF n < 10 THEN 48 + n ELSE 55 + n

\* url.QueryEscape of one byte
QueryEscapeByte(b) ==
    IF (b >= 48 /\ b <= 57) \/ (b >= 65 /\ b <= 90) \/ (b >= 97 /\ b <= 122)
         \/ b \in {45, 46, 95, 126}
    THEN <<b>>
    ELSE IF b = 32 THEN <<43>>
    ELSE <<37, UpperHex(b \div 16), UpperHex(b % 16)>>

RECURSIVE QueryEscape(_)
QueryEscape(v) == IF v = <<>> THEN <<>> ELSE QueryEscapeByte(v[1]) \o QueryEscape(Tail(v))

\* date.UTC().Format("2006-01-02Z")
FormatDateZ(civil) ==
    Pad4(civil.year) \o <<45>> \o Pad2(civil.month) \o <<45>> \o Pad2(civil.day) \o <<90>>

\* url.Values.Encode of Stations' query: the keys in sorted order
StationsQuery(filter) ==
    (IF filter.hasDate
     THEN Bytes("data=") \o QueryEscape(FormatDateZ(CivilFromDays(filter.Date.days)))
     ELSE <<>>)
    \o (IF filter.hasDate /\ filter.hasStatus THEN <<38>> ELSE <<>>)
    \o (IF filter.hasStatus THEN Bytes("estat=") \o QueryEscape(filter.Status) ELSE <<>>)

\* Stations, the resource
StationsResource(filter) ==
    IF StationsQuery(filter) # <<>>
    THEN stationMetadataPath \o <<63>> \o StationsQuery(filter)
    ELSE stationMetadataPath

\* Observations, the resource, for the civil date of date.UTC()
ObservationsResource(stationCode, civil) ==
    stationObservationsPath \o <<47>> \o stationCode \o <<47>> \o Pad4(civil.year)
        \o <<47>> \o Pad2(civil.month) \o <<47>> \o Pad2(civil.day)

\* MunicipalHourlyForecast, the resource
MunicipalHourlyForecastResource(municipalityCode) ==
    municipalHourlyForecastPath \o <<47>> \o municipalityCode

\* model.MunicipalityHourlyForecast{}
EmptyForecast == [MunicipalityCode |-> <<>>, Days |-> <<>>]

\* The zero value of what fn returns, which is also its fresh local target
ZeroResult(fn) == IF fn = "MunicipalHourlyForecast" THEN EmptyForecast ELSE NilRegionList

\* An endpoint that sends its request with POST
endpointDoCallPost(resource) == [method |-> Bytes("POST"), resource |-> resource]

\* The arguments an endpoint function hands to its DoFunc
endpointDoCall(resource) == [method |-> Bytes("GET"), resource |-> resource]

\* An endpoint that returns whatever is in its target along with the error
endpointReturnKeepsTarget(fn, target, err) == [result |-> target, err |-> err]

\* What an endpoint function returns once its DoFunc has returned err
endpointReturn(fn, target, err) ==
    IF ~err.isNil THEN [result |-> ZeroResult(fn), err |-> err]
    ELSE [result |-> target, err |-> NilError]

\* 2024-02-29 23:30 at +00:00, and 2025-01-01 00:30 at +02:00, which is
\* 2024-12-31 in UTC
EndpointDates ==
    { TimeOfWall(DaysOf(2024, 2, 29), 84600, 0, 0), TimeOfWall(DaysOf(2025, 1, 1), 1800, 0, 7200) }

NoFilter == [hasStatus |-> FALSE, Status |-> <<>>, hasDate |-> FALSE, Date |-> ZeroTime]

StationFilters ==
    { NoFilter }
    \cup { [NoFilter EXCEPT !.hasStatus = TRUE, !.Status = st] :
             st \in {Bytes("ope"), Bytes("a b")} }
    \cup { [NoFilter EXCEPT !.hasDate = TRUE, !.Date = d] : d \in EndpointDates }
    \cup { [hasStatus |-> TRUE, Status |-> Bytes("ope"), hasDate |-> TRUE, Date |-> d] :
             d \in EndpointDates }

NoArgs == [stationCode |-> <<>>, date |-> ZeroTime, municipalityCode |-> <<>>, filter |-> NoFilter]

\* The calls of endpoint functions
EndpointCalls ==
    { [fn |-> fn, args |-> NoArgs] : fn \in {"Regions", "Municipalities", "Symbols", "Variables"} }
    \cup { [fn |-> "Stations", args |-> [NoArgs EXCEPT !.filter = f]] : f \in StationFilters }
    \cup { [fn |-> "Observations", args |-> [NoArgs EXCEPT !.stationCode = Bytes("CC"), !.date = d]] :
             d \in EndpointDates }
    \cup { [fn |-> "MunicipalHourlyForecast",
            args |-> [NoArgs EXCEPT !.municipalityCode = Bytes("250019")]] }

\* What a mock may store in the target of fn: nothing, a part, all
MockWrites(fn) ==
    IF fn = "MunicipalHourlyForecast"
    THEN { [writes |-> FALSE, value |-> EmptyForecast],
           [writes |-> TRUE, value |-> [MunicipalityCode |-> Bytes("250019"), Days |-> <<>>]],
           [writes |-> TRUE, value |-> [MunicipalityCode |-> Bytes("250019"),
                                        Days |-> <<Bytes("2024-02-29Z")>>]] }
    ELSE { [writes |-> FALSE, value |-> NilRegionList],
           [writes |-> TRUE, value |-> [isNil |-> FALSE, items |-> <<>>]],
           [writes |-> TRUE, value |-> [isNil |-> FALSE,
                                        items |-> <<[Code |-> 1, Name |-> Bytes("Alt Camp")]>>]] }

\* What a mock may return
MockErrors ==
    { NilError, APIError(401, BodyInvalidKey), APIError(0, Bytes("unmarshal response: EOF")) }

InitEndpoint ==
    /\ DoIdle
    /\ norm = NoNorm
    /\ call = NoCall
    /\ \E e \in EndpointCalls :
          \/ \E w \in MockWrites(e.fn), err \in MockErrors :
                ep = [fn |-> e.fn, pc |-> "idle", args |-> e.args, doFunc |-> "mock",
                      mock |-> [writes |-> w.writes, value |-> w.value, err |-> err],
                      doCalls |-> <<>>, target |-> ZeroResult(e.fn), doErr |-> NilError,
                      result |-> ZeroResult(e.fn), err |-> NilError]
          \/ /\ e.fn = "Regions"
             /\ ep = [fn |-> e.fn, pc |-> "idle", args |-> e.args, doFunc |-> "client",
                      mock |-> [writes |-> FALSE, value |-> NilRegionList, err |-> NilError],
                      doCalls |-> <<>>, target |-> NilRegionList, doErr |-> NilError,
                      result |-> NilRegionList, err |-> NilError]

\* The endpoint function declares its target and calls its DoFunc for
\* resource; with Client.Regions that call enters the client's do
EndpointCallsDo(resource) ==
    /\ ep.pc = "idle"
    /\ ep' = [ep EXCEPT !.pc = "inDo", !.target = ZeroResult(ep.fn),
                        !.doCalls = Append(ep.doCalls, endpointDoCall(resource))]
    /\ IF ep.doFunc = "client"
       THEN /\ method' = endpointDoCall(resource).method
            /\ out' = [kind |-> "ptr", val |-> ZeroResult(ep.fn)]
            /\ outArg' = out'
            /\ pc' = "validate"
       ELSE UNCHANGED <<method, out, outArg, pc>>
    /\ UNCHANGED <<c, requests, hasResp, resp, bodyPos, bodyEnded, bodyClosed, respBytes,
                   decoded, steps, ret, norm, call>>

Regions ==
    /\ ep.fn = "Regions"
    /\ EndpointCallsDo(ResourceRegions)

Municipalities ==
    /\ ep.fn = "Municipalities"
    /\ EndpointCallsDo(Bytes("/referencia/v1/municipis"))

Symbols ==
    /\ ep.fn = "Symbols"
    /\ EndpointCallsDo(Bytes("/referencia/v1/simbols"))

Stations ==
    /\ ep.fn = "Stations"
    /\ EndpointCallsDo(StationsResource(ep.args.filter))

Observations ==
    /\ ep.fn = "Observations"
    /\ EndpointCallsDo(ObservationsResource(ep.args.stationCode,
                                            CivilFromDays(ep.args.date.days)))

Variables ==
    /\ ep.fn = "Variables"
    /\ EndpointCallsDo(variablesMetadataPath)

MunicipalHourlyForecast ==
    /\ ep.fn = "MunicipalHourlyForecast"
    /\ EndpointCallsDo(MunicipalHourlyForecastResource(ep.args.municipalityCode))

EndpointUnchanged ==
    UNCHANGED <<pc, c, method, out, outArg, requests, hasResp, resp, bodyPos, bodyEnded,
                bodyClosed, respBytes, decoded, steps, ret, norm, call>>

\* The mock DoFunc runs: it may write into the target, and returns
MockDo ==
    /\ ep.pc = "inDo"
    /\ ep.doFunc = "mock"
    /\ ep' = [ep EXCEPT !.pc = "doReturned",
                        !.target = IF ep.mock.writes THEN ep.mock.value ELSE ep.target,
                        !.doErr = ep.mock.err]
    /\ EndpointUnchanged

\* The client's do returns to the endpoint function
ClientDoReturns ==
    /\ ep.pc = "inDo"
    /\ ep.doFunc = "client"
    /\ pc = "done"
    /\ ep' = [ep EXCEPT !.pc = "doReturned", !.target = out.val, !.doErr = ret]
    /\ EndpointUnchanged

\* The endpoint function returns
EndpointReturns ==
    /\ ep.pc = "doReturned"
    /\ ep' = [ep EXCEPT !.pc = "returned",
                        !.result = endpointReturn(ep.fn, ep.target, ep.doErr).result,
                        !.err = endpointReturn(ep.fn, ep.target, ep.doErr).err]
    /\ EndpointUnchanged

NextEndpoint ==
    \/ Regions
    \/ Municipalities
    \/ Symbols
    \/ Stations
    \/ Observations
    \/ Variables
    \/ MunicipalHourlyForecast
    \/ MockDo
    \/ ClientDoReturns
    \/ EndpointReturns
    \/ Validate
    \/ PrepareRequest
    \/ HttpDoFails
    \/ HttpDoResponds
    \/ ReadBody
    \/ Normalize
    \/ HandleError
    \/ HandleSuccess
    \/ Deferred

SpecEndpoint == InitEndpoint /\ [][NextEndpoint]_vars

----------------------------------------------------------------------------
(* do called with a *model.HourlyValue as target on 2xx responses of a     *)
(* JSON content type: bodies that decode, bodies that are no JSON, bodies  *)
(* of another shape, and bodies whose timestamp no layout accepts.         *)

DecodeValues == { Bytes("\"16.9\""), Bytes("16.90"), Bytes("true"), JSONNull }

DecodeTimes ==
    { Bytes("\"2020-08-20T12:00:00Z\""), Bytes("\"1992-05-11T15:30Z\""),
      Bytes("\"2020-08-20T12:00+02:00\""), Bytes("\"2020-08-20T12:00:00.5Z\""),
      Bytes("\"2020-13-01T00:00Z\""), Bytes("\"2020-08-20 12:00\""), Bytes("\"\""),
      Bytes("\"2023-02-29T10:00Z\""), Bytes("\"2020-08-20T12:00\""), Bytes("\"yesterday\""),
      Bytes("1597881600"), JSONNull }

DecodeBodies ==
    { Bytes("{\"valor\":") \o v \o Bytes(",\"data\":") \o t \o <<125>> :
        v \in DecodeValues, t \in DecodeTimes }
    \cup { Bytes("{\"data\":") \o t \o Bytes(",\"valor\":") \o v \o <<125>> :
             v \in DecodeValues, t \in DecodeTimes }
    \cup { Bytes("{\"data\":"), Bytes("[1]"), Bytes("\"x\""), Bytes("{}"), Bytes("null"),
           Bytes("<html>") }

DecodeTargets ==
    { ZeroHourlyValue,
      [Value |-> Bytes("7"), Time |-> TimeOfWall(DaysOf(2019, 1, 1), 0, 0, 0)] }

DecodeResponses ==
    { [StatusCode |-> st, ContentType |-> ct,
       Body |-> [data |-> b, fails |-> FALSE, errWithData |-> FALSE, errText |-> <<>>]] :
        st \in {200, 201, 299},
        ct \in {Bytes("application/json"), Bytes("application/vnd.api+json; charset=utf-8")},
        b \in DecodeBodies }

InitDecode ==
    /\ DoIdle
    /\ norm = NoNorm
    /\ ep = NoEndpoint
    /\ \E r \in DecodeResponses, t \in DecodeTargets :
          call = [fn |-> "do", stage |-> "start", called |-> FALSE,
                  resp |-> r, target |-> t,
                  result |-> [ret |-> NilError, out |-> [kind |-> "ptr", val |-> t],
                              sent |-> NotSent]]

\* do(ctx, "GET", resource, &target) over a transport that answers call.resp
DecodeDo ==
    /\ call.fn = "do"
    /\ call.stage = "start"
    /\ call' = [call EXCEPT !.stage = "done", !.called = TRUE,
                            !.result = do(c, Bytes("GET"), ResourceRegions,
                                          [kind |-> "ptr", val |-> call.target],
                                          [fails |-> FALSE, errText |-> <<>>,
                                           resp |-> call.resp])]
    /\ CallUnchanged

NextDecode == DecodeDo

SpecDecode == InitDecode /\ [][NextDecode]_vars

----------------------------------------------------------------------------
(* Properties of Client.do                                                 *)

\* do has returned to its caller
Returned == pc = "done"

\* do has returned after httpClient.Do gave it a response
ReturnedResponse == pc = "done" /\ hasResp

Is2xx(status) == status >= 200 /\ status < 300

\* The body stream ends with EOF: no read fails
BodyReadable == ~resp.Body.fails

\* do called handleErrorResponse / handleSuccessResponse
ReachedErrorDecode == \E i \in 1..Len(steps) : steps[i] = "handleError"

ReachedSuccessDecode == \E i \in 1..Len(steps) : steps[i] = "handleSuccess"

TooLargeText == Bytes("response body too large")

\* e is the body-too-large error of this response: its code is the HTTP
\* status and its message states the client's limit
IsBodyTooLarge(e) ==
    /\ ~e.isNil
    /\ e.Code = resp.StatusCode
    /\ HasPrefixAt(e.Message, 1, TooLargeText)
    /\ Contains(e.Message, Itoa(c.maxResponseBody))

\* C1 (as amended): do fails with the body-too-large error exactly when the
\* body stream yields more than maxResponseBody bytes and no read error has
\* been reported by the time byte maxResponseBody + 1 is read; this holds
\* for every status and content type, and a body of exactly maxResponseBody
\* bytes is never rejected for size.
C1_BodyTooLargeIff ==
    ReturnedResponse =>
        /\ IsBodyTooLarge(ret) <=>
              /\ Len(resp.Body.data) > c.maxResponseBody
              /\ ~(/\ resp.Body.fails
                   /\ resp.Body.errWithData
                   /\ Len(resp.Body.data) = c.maxResponseBody + 1)
        /\ Len(resp.Body.data) = c.maxResponseBody => ~IsBodyTooLarge(ret)

\* C1 witness: a 404 JSON response of maxResponseBody + 1 bytes was
\* rejected for size
C1_Witness ==
    /\ ReturnedResponse
    /\ resp.StatusCode = 404
    /\ isJSONContent(resp.ContentType)
    /\ Len(resp.Body.data) = c.maxResponseBody + 1
    /\ IsBodyTooLarge(ret)

\* C1 as stated: do fails with the body-too-large error if and only if the
\* body stream holds more than maxResponseBody bytes.
C1_Original ==
    ReturnedResponse =>
        (IsBodyTooLarge(ret) <=> Len(resp.Body.data) > c.maxResponseBody)

\* C2 as stated: every error do returns has a non-empty Message.
C2_MessageNeverEmpty ==
    (Returned /\ ~ret.isNil) => ret.Message # <<>>

\* The body was unmarshalled into out without error
PopulatedFromBody ==
    /\ decoded
    /\ UnmarshalRegionList(respBytes, outArg.val).err = ""
    /\ out.val = UnmarshalRegionList(respBytes, outArg.val).val

\* C3 (as amended): when do returns nil the status was in [200, 300) and
\* either out was populated by a successful unmarshal of the non-empty
\* body, or the status was 204 with an empty body and out was left as
\* passed; every response with a status outside [200, 300) yields an error.
C3_NilErrorMeans ==
    /\ (Returned /\ ret.isNil) =>
          /\ hasResp
          /\ Is2xx(resp.StatusCode)
          /\ \/ respBytes # <<>> /\ PopulatedFromBody
             \/ /\ resp.StatusCode = 204
                /\ resp.Body.data = <<>>
                /\ ~decoded
                /\ out = outArg
    /\ (ReturnedResponse /\ ~Is2xx(resp.StatusCode)) => ~ret.isNil

\* C3 witness: do returned nil after a 200 body filled out with a Region
C3_Witness ==
    /\ Returned
    /\ ret.isNil
    /\ resp.StatusCode = 200
    /\ decoded
    /\ outArg.val.isNil
    /\ Len(out.val.items) = 1

\* C3 as stated: a nil error means a 2xx status and out populated by a
\* successful unmarshal of the body.
C3_Original ==
    (Returned /\ ret.isNil) =>
        (hasResp /\ Is2xx(resp.StatusCode) /\ PopulatedFromBody)

UnexpectedContentTypeText == Bytes("unexpected content-type ")

\* e is the unexpected-content-type error of this response
IsUnexpectedContentType(e) ==
    /\ ~e.isNil
    /\ e.Code = resp.StatusCode
    /\ HasPrefixAt(e.Message, 1, UnexpectedContentTypeText)
    /\ Contains(e.Message, Quote(resp.ContentType))

\* The body passes the bounded read and the charset normalization
BodyAccepted ==
    /\ BodyReadable
    /\ Len(resp.Body.data) <= c.maxResponseBody
    /\ normalizeJSONBytes(resp.ContentType, resp.Body.data).err.isNil

\* C4 (as amended): a 2xx response with a content type that is not
\* JSON-like and a non-empty body that is read without error, is within
\* the size limit and passes charset normalization makes do fail with the
\* unexpected-content-type error, and the body is not unmarshalled.
C4_UnexpectedContentType ==
    (/\ ReturnedResponse
     /\ Is2xx(resp.StatusCode)
     /\ resp.Body.data # <<>>
     /\ ~isJSONContent(resp.ContentType)
     /\ BodyAccepted) =>
        (IsUnexpectedContentType(ret) /\ ~decoded /\ out = outArg)

\* C4 witness: a 200 text/html response whose body is valid JSON was
\* refused
C4_Witness ==
    /\ ReturnedResponse
    /\ resp.StatusCode = 200
    /\ resp.ContentType = Bytes("text/html")
    /\ resp.Body.data = BodyRegions
    /\ BodyReadable
    /\ IsUnexpectedContentType(ret)

\* C4 as stated: every 2xx response with a non-empty body and a content
\* type that is not JSON-like fails with the unexpected-content-type error
\* (here even with read failures and oversized bodies left aside).
C4_Original ==
    (/\ ReturnedResponse
     /\ Is2xx(resp.StatusCode)
     /\ resp.Body.data # <<>>
     /\ BodyReadable
     /\ Len(resp.Body.data) <= c.maxResponseBody
     /\ ~isJSONContent(resp.ContentType)) =>
        (IsUnexpectedContentType(ret) /\ ~decoded)

EmptyBodyText == Bytes("empty response body")

\* C5: a 2xx response other than 204 with an empty body yields the
\* empty-body error with code = status, whether its content type is
\* JSON-like or not (emptiness is checked before the content type), and
\* nothing is unmarshalled.
C5_EmptyBody ==
    (/\ ReturnedResponse
     /\ Is2xx(resp.StatusCode)
     /\ resp.StatusCode # 204
     /\ resp.Body.data = <<>>
     /\ BodyReadable) =>
        /\ ~ret.isNil
        /\ ret.Code = resp.StatusCode
        /\ HasPrefixAt(ret.Message, 1, EmptyBodyText)
        /\ ~decoded

\* C5 witness: an empty 200 text/html response got the empty-body error
C5_Witness ==
    /\ ReturnedResponse
    /\ resp.StatusCode = 200
    /\ resp.ContentType = Bytes("text/html")
    /\ resp.Body.data = <<>>
    /\ BodyReadable
    /\ HasPrefixAt(ret.Message, 1, EmptyBodyText)

\* C6: a 204 response with an empty body makes do return nil without
\* decoding, out left as the caller passed it, whatever the content type.
C6_NoContent ==
    (/\ ReturnedResponse
     /\ resp.StatusCode = 204
     /\ resp.Body.data = <<>>
     /\ BodyReadable) =>
        (ret.isNil /\ ~decoded /\ out = outArg)

\* C6 witness: a 204 text/html response returned nil and left a filled
\* target alone
C6_Witness ==
    /\ ReturnedResponse
    /\ resp.StatusCode = 204
    /\ resp.ContentType = Bytes("text/html")
    /\ resp.Body.data = <<>>
    /\ BodyReadable
    /\ ret.isNil
    /\ ~outArg.val.isNil
    /\ out = outArg

\* The error shape that the normalized body of this response unmarshals to
ErrorPayload == UnmarshalAPIError(respBytes, [Code |-> 0, Message |-> <<>>])

\* C7: when the non-empty body handed to handleErrorResponse (status
\* outside [200, 300)) unmarshals as {code, message} with one of the two
\* set, the error carries the payload's message and the payload's code, a
\* payload code of zero being replaced by the HTTP status; status 404 with
\* {"code":404,"message":"Station not found"} yields APIError{404, "Station
\* not found"}, and an API code that differs from the status is kept.
C7_StructuredError ==
    /\ (/\ Returned
        /\ ReachedErrorDecode
        /\ respBytes # <<>>
        /\ ErrorPayload.err = ""
        /\ (ErrorPayload.val.Code # 0 \/ ErrorPayload.val.Message # <<>>)) =>
          /\ ~ret.isNil
          /\ ret.Message = ErrorPayload.val.Message
          /\ ret.Code = IF ErrorPayload.val.Code = 0 THEN resp.StatusCode
                        ELSE ErrorPayload.val.Code
    /\ (/\ Returned
        /\ ReachedErrorDecode
        /\ resp.StatusCode = 404
        /\ respBytes = BodyStationNotFound) =>
          ret = APIError(404, Bytes("Station not found"))
    /\ (/\ Returned
        /\ ReachedErrorDecode
        /\ respBytes = Bytes("{\"code\":1001,\"message\":\"Quota exceeded\"}")) =>
          ret = APIError(1001, Bytes("Quota exceeded"))
    /\ (/\ Returned
        /\ ReachedErrorDecode
        /\ respBytes = Bytes("{\"message\":\"Forbidden\"}")) =>
          ret = APIError(resp.StatusCode, Bytes("Forbidden"))

\* C7 witness: status 401 with an API code of 1001 in the body returned
\* the API's code and message
C7_Witness ==
    /\ Returned
    /\ ReachedErrorDecode
    /\ resp.StatusCode = 401
    /\ ret = APIError(1001, Bytes("Quota exceeded"))

\* C8: when the non-empty body handed to handleErrorResponse fails to
\* unmarshal as the error shape, or unmarshals to code 0 and message "",
\* the error has code = HTTP status and message = the body text verbatim;
\* status 401 with the body Invalid API key yields APIError{401, "Invalid
\* API key"}.
C8_RawBodyFallback ==
    /\ (/\ Returned
        /\ ReachedErrorDecode
        /\ respBytes # <<>>
        /\ \/ ErrorPayload.err # ""
           \/ (ErrorPayload.val.Code = 0 /\ ErrorPayload.val.Message = <<>>)) =>
          ret = APIError(resp.StatusCode, respBytes)
    /\ (/\ Returned
        /\ ReachedErrorDecode
        /\ resp.StatusCode = 401
        /\ respBytes = BodyInvalidKey) =>
          ret = APIError(401, Bytes("Invalid API key"))
    /\ (/\ Returned
        /\ ReachedErrorDecode
        /\ respBytes \in {Bytes("{}"), Bytes("null"), Bytes("{\"code\":0,\"message\":\"\"}"),
                          Bytes("{\"code\":\"x\",\"message\":\"m\"}")}) =>
          ret = APIError(resp.StatusCode, respBytes)

\* C8 witness: status 404 with the all-empty payload {"code":0,"message":""}
\* returned the body text as the message
C8_Witness ==
    /\ Returned
    /\ ReachedErrorDecode
    /\ resp.StatusCode = 404
    /\ respBytes = Bytes("{\"code\":0,\"message\":\"\"}")
    /\ ret = APIError(404, respBytes)

\* The conclusion of C9: the code is the HTTP status or the non-zero code
\* of a JSON error body, the message is the API's message, the body text or
\* (empty body) the reason phrase of the status
C9_ErrorShape(body) ==
    /\ ~ret.isNil
    /\ \/ ret.Code = resp.StatusCode
       \/ /\ UnmarshalAPIError(body, [Code |-> 0, Message |-> <<>>]).err = ""
          /\ UnmarshalAPIError(body, [Code |-> 0, Message |-> <<>>]).val.Code # 0
          /\ ret.Code = UnmarshalAPIError(body, [Code |-> 0, Message |-> <<>>]).val.Code
    /\ \/ /\ body # <<>>
          /\ UnmarshalAPIError(body, [Code |-> 0, Message |-> <<>>]).err = ""
          /\ ret.Message = UnmarshalAPIError(body, [Code |-> 0, Message |-> <<>>]).val.Message
       \/ body # <<>> /\ ret.Message = body
       \/ body = <<>> /\ ret.Message = StatusText(resp.StatusCode)

\* C9 (as amended): for every response with a status outside [200, 300)
\* whose body is read without error, is within the size limit and passes
\* charset normalization, do returns an error whose code is the HTTP status
\* or the non-zero code of a JSON error body and whose message is the API's
\* message, the normalized body text or, for an empty body, the reason
\* phrase of the status.
C9_Non2xxError ==
    (/\ ReturnedResponse
     /\ ~Is2xx(resp.StatusCode)
     /\ BodyAccepted) =>
        C9_ErrorShape(normalizeJSONBytes(resp.ContentType, resp.Body.data).bytes)

\* C9 witness: an empty 404 response returned the reason phrase
C9_Witness ==
    /\ ReturnedResponse
    /\ resp.StatusCode = 404
    /\ resp.Body.data = <<>>
    /\ BodyReadable
    /\ ret = APIError(404, Bytes("Not Found"))

\* C9 as stated: every response with a status outside [200, 300) and a
\* body within the size limit yields such an error (here even with read
\* failures left aside, and the body text taken before or after
\* normalization).
C9_Original ==
    (/\ ReturnedResponse
     /\ ~Is2xx(resp.StatusCode)
     /\ BodyReadable
     /\ Len(resp.Body.data) <= c.maxResponseBody) =>
        \/ C9_ErrorShape(resp.Body.data)
        \/ C9_ErrorShape(respBytes)

----------------------------------------------------------------------------
(* Properties of normalizeJSONBytes                                        *)

\* The charset tokens normalizeJSONBytes supports
SupportedCharsets ==
    { <<>>, Bytes("utf-8"), Bytes("utf8"),
      Bytes("iso-8859-1"), Bytes("iso8859-1"), Bytes("latin1"),
      Bytes("iso-8859-15"), Bytes("iso8859-15"), Bytes("latin9"),
      Bytes("windows-1252"), Bytes("cp1252") }

\* C10: when the declared charset, compared case-insensitively, is none of
\* the supported tokens, normalizeJSONBytes returns valid UTF-8 input
\* unchanged and fails on any other input with an error of code 0 whose
\* message names the charset token and the Content-Type header value.
C10_UnsupportedCharset ==
    /\ (norm.called /\ DeclaredCharset(norm.contentType) \notin SupportedCharsets) =>
          IF Utf8Valid(norm.input)
          THEN norm.result = [bytes |-> norm.input, err |-> NilError]
          ELSE /\ ~norm.result.err.isNil
               /\ norm.result.err.Code = 0
               /\ Contains(norm.result.err.Message, Quote(DeclaredCharset(norm.contentType)))
               /\ Contains(norm.result.err.Message, Quote(norm.contentType))
    /\ (norm.called /\ norm.contentType = Bytes("text/plain; charset=KOI8-R")
          /\ norm.input = <<233>>) =>
          norm.result.err = APIError(0,
              Bytes("unsupported charset \"koi8-r\" in content-type \"text/plain; charset=KOI8-R\""))
    /\ (norm.called /\ norm.contentType = Bytes("text/html; charset=CP1252")
          /\ norm.input = <<128>>) =>
          norm.result = [bytes |-> <<226, 130, 172>>, err |-> NilError]
    /\ (norm.called /\ ~norm.result.err.isNil) =>
          DeclaredCharset(norm.contentType) \notin SupportedCharsets

\* C10 witness: bytes that are not valid UTF-8 under charset=KOI8-R were
\* refused with code 0
C10_Witness ==
    /\ norm.called
    /\ norm.contentType = Bytes("text/plain; charset=KOI8-R")
    /\ norm.input = <<65, 233>>
    /\ ~norm.result.err.isNil
    /\ norm.result.err.Code = 0

\* The charset tokens of the UTF-8 case
UTF8Charsets == { <<>>, Bytes("utf-8"), Bytes("utf8") }

\* C11: with declared charset "", "utf-8" or "utf8", normalizeJSONBytes
\* returns valid UTF-8 unchanged and converts any other input with the
\* Latin-1 rule, never with an error; zero-length input is returned
\* unchanged with no error under every content type.
C11_UTF8Charset ==
    /\ (norm.called /\ DeclaredCharset(norm.contentType) \in UTF8Charsets) =>
          /\ norm.result.err.isNil
          /\ Utf8Valid(norm.input) => norm.result.bytes = norm.input
          /\ ~Utf8Valid(norm.input) => norm.result.bytes = latin1ToUTF8(norm.input)
    /\ (norm.called /\ norm.input = <<>>) =>
          norm.result = [bytes |-> <<>>, err |-> NilError]
    /\ (norm.called /\ norm.contentType = Bytes("application/json;charset=UTF8")
          /\ norm.input = <<65, 233>>) =>
          norm.result = [bytes |-> <<65, 195, 169>>, err |-> NilError]
    /\ (norm.called /\ norm.contentType = <<>> /\ norm.input = <<233, 128, 164>>) =>
          norm.result = [bytes |-> <<233, 128, 164>>, err |-> NilError]

\* C11 witness: under charset=utf-8 the Latin-1 byte 0xE9 after 'A' was
\* converted to the two bytes of U+00E9
C11_Witness ==
    /\ norm.called
    /\ norm.contentType = Bytes("application/json; charset=utf-8")
    /\ norm.input = <<65, 233>>
    /\ norm.result = [bytes |-> <<65, 195, 169>>, err |-> NilError]

----------------------------------------------------------------------------
(* Properties of the charset converters                                    *)

\* The code point of the n-byte UTF-8 encoding at s[i]
RuneAt(s, i, n) ==
    IF n = 1 THEN s[i]
    ELSE IF n = 2 THEN (s[i] - 192) * 64 + (s[i + 1] - 128)
    ELSE IF n = 3 THEN (s[i] - 224) * 4096 + (s[i + 1] - 128) * 64 + (s[i + 2] - 128)
    ELSE (s[i] - 240) * 262144 + (s[i + 1] - 128) * 4096 + (s[i + 2] - 128) * 64
         + (s[i + 3] - 128)

\* The code points s decodes to as UTF-8, -1 standing for a byte that
\* starts no valid encoding
RECURSIVE DecodeRunesFrom(_, _)
DecodeRunesStep(s, i, n) ==
    IF n = 0 THEN <<-1>> \o DecodeRunesFrom(s, i + 1)
    ELSE <<RuneAt(s, i, n)>> \o DecodeRunesFrom(s, i + n)

DecodeRunesFrom(s, i) ==
    IF i > Len(s) THEN <<>> ELSE DecodeRunesStep(s, i, Utf8SeqLen(s, i))

DecodeRunes(s) == DecodeRunesFrom(s, 1)

\* C12: latin1ToUTF8 turns every byte b into the UTF-8 encoding of the
\* code point b: one byte below 0x80, the two bytes 0xC0|(b>>6) and
\* 0x80|(b&0x3F) from 0x80 on; an input of n bytes decodes to its n bytes'
\* values as code points, in order.
C12_Latin1 ==
    (call.called /\ call.fn = "latin1ToUTF8") =>
        /\ DecodeRunes(call.result) = call.input
        /\ \A b \in 0..255 : call.input = <<b>> =>
              call.result = IF b < 128 THEN <<b>>
                            ELSE <<192 + (b \div 64), 128 + (b % 64)>>
        /\ call.input = <<233>> => call.result = <<195, 169>>
        /\ call.input = <<255>> => call.result = <<195, 191>>
        /\ call.input = <<128>> => call.result = <<194, 128>>

\* C12 witness: three bytes, two of them above 0x7F, became five bytes
\* that decode to the same three values
C12_Witness ==
    /\ call.called
    /\ call.fn = "latin1ToUTF8"
    /\ call.input = <<65, 255, 128>>
    /\ call.result = <<65, 195, 191, 194, 128>>

\* The code point windows1252ToUTF8 is to give byte b
Windows1252Rune(b) ==
    IF b < 128 \/ b >= 160 THEN b ELSE win1252[b - 127]

\* The bytes the Windows-1252 standard leaves unmapped
Windows1252Unmapped == {129, 141, 143, 144, 157}

\* C13: windows1252ToUTF8 maps every byte to one code point: 0x00-0x7F and
\* 0xA0-0xFF to the byte's value, 0x80-0x9F through the 32-entry table, in
\* which 0x80 is U+20AC and 0x81, 0x8D, 0x8F, 0x90, 0x9D are U+FFFD.
C13_Windows1252 ==
    (call.called /\ call.fn = "windows1252ToUTF8") =>
        /\ Len(DecodeRunes(call.result)) = Len(call.input)
        /\ \A i \in 1..Len(call.input) :
              DecodeRunes(call.result)[i] = Windows1252Rune(call.input[i])
        /\ call.input = <<128>> => DecodeRunes(call.result) = <<8364>>
        /\ call.input = <<128>> => call.result = <<226, 130, 172>>
        /\ \A b \in Windows1252Unmapped : call.input = <<b>> =>
              (DecodeRunes(call.result) = <<65533>> /\ call.result = <<239, 191, 189>>)
        /\ call.input = <<153>> => DecodeRunes(call.result) = <<8482>>
        /\ call.input = <<164>> => DecodeRunes(call.result) = <<164>>

\* C13 witness: the byte 0x81 became U+FFFD between two bytes that kept
\* their values
C13_Witness ==
    /\ call.called
    /\ call.fn = "windows1252ToUTF8"
    /\ call.input = <<65, 129, 255>>
    /\ DecodeRunes(call.result) = <<65, 65533, 255>>

----------------------------------------------------------------------------
(* Properties of isJSONContent                                             *)

\* C14 (as amended): isJSONContent(header) is true exactly when the header
\* value, compared case-insensitively, contains application/json or
\* contains +json anywhere (a +json media type followed by parameters
\* counts), and false for every other value, the empty header included.
C14_IsJSONContent ==
    (call.called /\ call.fn = "isJSONContent") =>
        /\ call.result <=> (\/ Contains(ToLower(call.input), Bytes("application/json"))
                            \/ Contains(ToLower(call.input), Bytes("+json")))
        /\ call.input \in { Bytes("application/json"), Bytes("APPLICATION/JSON; charset=utf-8"),
                            Bytes("application/vnd.api+JSON"),
                            Bytes("application/problem+json; charset=utf-8"),
                            Bytes("application/jsonp"), Bytes("text/x+jsonp"),
                            Bytes("text/html; profile=\"x+json\"") } => call.result
        /\ call.input \in { <<>>, Bytes(" "), Bytes("text/html"), Bytes("text/json"),
                            Bytes("json; charset=utf-8"), Bytes("application/x-json"),
                            Bytes("application/hal+xml") } => ~call.result

\* C14 witness: a +json media type followed by a charset parameter was
\* taken as JSON
C14_Witness ==
    /\ call.called
    /\ call.fn = "isJSONContent"
    /\ call.input = Bytes("application/ld+json; charset=utf-8")
    /\ call.result

\* C14 as stated: isJSONContent(header) is true exactly when the header
\* value, compared case-insensitively, contains application/json or ends
\* with +json.
C14_Original ==
    (call.called /\ call.fn = "isJSONContent") =>
        (call.result <=> (\/ Contains(ToLower(call.input), Bytes("application/json"))
                          \/ HasSuffix(ToLower(call.input), Bytes("+json"))))

----------------------------------------------------------------------------
(* Properties of MeteocatTime                                              *)

SameInstant(a, b) == a.days = b.days /\ a.sec = b.sec /\ a.nsec = b.nsec

\* e is the JSON string of a full-precision RFC3339 text (date, hour,
\* minute, second, zone; no fraction) of the instant of t
IsCanonicalTextOf(e, t) ==
    /\ Len(e) \in {22, 27}
    /\ e[1] = 34
    /\ e[Len(e)] = 34
    /\ ParseRFC3339(SubSeq(e, 2, Len(e) - 1)).ok
    /\ SameInstant(ParseRFC3339(SubSeq(e, 2, Len(e) - 1)).t, t)

\* C15 as stated: for every timestamp text the decoder accepts (the zero
\* instant, which encodes as null, left aside), decoding and re-encoding
\* yields the full-precision RFC3339 text of the same instant
\* ("2020-08-20T00:00Z" becomes "2020-08-20T00:00:00Z"), and decoding that
\* output again yields the same instant as the first decode.
C15_RoundTrip ==
    /\ (/\ call.fn = "MeteocatTime"
        /\ call.stage = "redecoded"
        /\ call.input # JSONNull
        /\ ~IsZero(call.m)) =>
          /\ IsCanonicalTextOf(call.encoded, call.m)
          /\ call.err2 = ""
          /\ SameInstant(call.m2, call.m)
    /\ (/\ call.fn = "MeteocatTime"
        /\ call.stage = "redecoded"
        /\ call.input = Bytes("\"2020-08-20T00:00Z\"")) =>
          call.encoded = Bytes("\"2020-08-20T00:00:00Z\"")

----------------------------------------------------------------------------
(* Properties of StringOrFloat64                                           *)

\* d is a decimal literal: sign, digits and an optional fraction
IsDecimalLiteral(d) ==
    /\ d # <<>>
    /\ NumberEnd(d, 1) = Len(d) + 1
    /\ \A i \in 1..Len(d) : d[i] \notin {101, 69}

\* d is a decimal literal in the form %v prints a float64 in: at most six
\* integer digits, no trailing zero in the fraction, and at most three
\* zeros between the point and the first other digit when the integer
\* part is 0
IsDefaultForm(d) ==
    /\ IsDecimalLiteral(d)
    /\ \/ \A i \in 1..Len(d) : d[i] # 46
       \/ d[Len(d)] # 48
    /\ \A i \in 1..Len(d) : d[i] = 46 => i <= (IF d[1] = 45 THEN 8 ELSE 7)
    /\ (\A i \in 1..Len(d) : d[i] # 46) => Len(d) <= (IF d[1] = 45 THEN 7 ELSE 6)
    /\ ~ \E i \in 1..Len(d) : /\ d[i] = 46
                               /\ SubSeq(d, 1, i - 1) \in {<<48>>, <<45, 48>>}
                               /\ HasPrefixAt(d, i + 1, <<48, 48, 48, 48>>)

\* e is a JSON string and decodes to the text str
IsJSONStringOf(e, str) ==
    /\ e[1] = 34
    /\ e[Len(e)] = 34
    /\ ParseJSON(e) = [ok |-> TRUE, val |-> [t |-> "str", s |-> str]]

\* C16 (as amended): for every decimal literal d the JSON string "d"
\* decodes to the text d, and the bare number d decodes to the default
\* text of its float64 value, which is d when d is written in that default
\* form (16.9, but not 16.90 or 12.0); both values re-encode as the quoted
\* JSON string of their text, and so does every other decoded value.
C16_Scalar ==
    (call.fn = "StringOrFloat64" /\ call.stage = "encoded") =>
        /\ IsJSONStringOf(call.stringEncoded, call.fromString)
        /\ IsJSONStringOf(call.bareEncoded, call.fromBare)
        /\ IsDecimalLiteral(call.input) =>
              /\ call.fromString = call.input
              /\ call.stringEncoded = <<34>> \o call.input \o <<34>>
              /\ call.bareEncoded = <<34>> \o call.fromBare \o <<34>>
        /\ IsDefaultForm(call.input) =>
              /\ call.fromBare = call.input
              /\ call.bareEncoded = call.stringEncoded
        /\ call.input = Bytes("16.9") =>
              /\ call.fromString = Bytes("16.9")
              /\ call.fromBare = Bytes("16.9")
              /\ call.stringEncoded = Bytes("\"16.9\"")
              /\ call.bareEncoded = Bytes("\"16.9\"")
        /\ call.input = Bytes("16.90") => call.fromBare = Bytes("16.9")
        /\ call.input = Bytes("12.0") => call.fromBare = Bytes("12")

\* C16 witness: the number 1013.25 and the string "1013.25" were decoded
\* to the same text and both encoded as the string "1013.25"
C16_Witness ==
    /\ call.fn = "StringOrFloat64"
    /\ call.stage = "encoded"
    /\ call.input = Bytes("1013.25")
    /\ call.fromBare = Bytes("1013.25")
    /\ call.fromString = call.fromBare
    /\ call.bareEncoded = Bytes("\"1013.25\"")
    /\ call.stringEncoded = call.bareEncoded

\* C16 as stated: for every decimal literal d, the JSON string "d" and the
\* bare number d decode to the same text d and both re-encode as the JSON
\* string "d".
C16_Original ==
    (call.fn = "StringOrFloat64" /\ call.stage = "encoded" /\ IsDecimalLiteral(call.input)) =>
        /\ call.fromString = call.input
        /\ call.fromBare = call.input
        /\ call.stringEncoded = <<34>> \o call.input \o <<34>>
        /\ call.bareEncoded = <<34>> \o call.input \o <<34>>

----------------------------------------------------------------------------
(* Properties of the API key                                               *)

\* The texts the transport handed to do: the error text and the body
TransportMentions(t, key) == Contains(t.errText, key) \/ Contains(t.resp.Body.data, key)

\* The key is in no name of the decoded list
ListOmits(o, key) ==
    o.val.isNil \/ \A i \in 1..Len(o.val.items) : ~Contains(o.val.items[i].Name, key)

\* What do hands back for a client omits the client's key, unless the
\* transport itself handed the key's text to do
DoOmitsKey(d, key) ==
    ~TransportMentions(d.sent, key) => ~Contains(d.ret.Message, key) /\ ListOmits(d.out, key)

----------------------------------------------------------------------------
(* Properties of do under a failing transport                              *)

\* s holds the step x
HasStep(s, x) == \E i \in 1..Len(s) : s[i] = x

\* The read of the response body ended with an error of the connection
BodyReadFailed == hasResp /\ ReadAllLimited(resp.Body, c.maxResponseBody + 1).failed

\* C18 (as amended): whenever httpClient.Do hands back no HTTP response
\* (connection, DNS, timeout or cancellation before the response arrives),
\* do returns an error with code 0 whose message is the request prefix
\* followed by the failure's text, and reads no body, normalizes nothing,
\* decodes nothing and leaves the target alone.  A failure of the
\* connection while the body is read (timeout, cancellation, reset) comes
\* after a response: do then returns the HTTP status as code and the
\* message "read response: " followed by the failure's text, after one
\* body read and with no normalization or decoding.
C18_TransportFailure ==
    /\ (pc = "done" /\ requests > 0 /\ ~hasResp) =>
          /\ ret.Code = 0
          /\ \E e \in TransportErrors : ret.Message = Bytes("request to METEOCAT API: ") \o e
          /\ steps = <<"validate", "prepare", "send">>
          /\ bodyPos = 0
          /\ respBytes = <<>>
          /\ ~decoded
          /\ out = outArg
    /\ (pc = "done" /\ BodyReadFailed) =>
          /\ ret = APIError(resp.StatusCode, Bytes("read response: ") \o resp.Body.errText)
          /\ steps = <<"validate", "prepare", "send", "read", "deferred">>
          /\ ~decoded
          /\ out = outArg

\* C18 witness: the connection was refused, do returned code 0 with the
\* failure in the message, and made no call after the request
C18_Witness ==
    /\ pc = "done"
    /\ requests = 1
    /\ ~hasResp
    /\ ret = APIError(0, Bytes("request to METEOCAT API: dial tcp: connection refused"))
    /\ ~HasStep(steps, "read")
    /\ ~HasStep(steps, "normalize")
    /\ ~decoded

\* C18 as stated: whenever the failure is a transport failure, and in
\* particular whenever no HTTP response was obtained, do returns code 0
\* and a message describing the failure, and performs no body read,
\* normalization or decoding.
C18_Original ==
    (pc = "done" /\ ((requests > 0 /\ ~hasResp) \/ BodyReadFailed)) =>
        /\ ret.Code = 0
        /\ ret.Message # <<>>
        /\ ~HasStep(steps, "read")
        /\ ~HasStep(steps, "normalize")
        /\ ~decoded

----------------------------------------------------------------------------
(* Properties of the endpoint functions                                    *)

\* The number of steps x in s
RECURSIVE CountStep(_, _)
CountStep(s, x) ==
    IF s = <<>> THEN 0 ELSE (IF Head(s) = x THEN 1 ELSE 0) + CountStep(Tail(s), x)

EndpointFunctions ==
    {"Regions", "Municipalities", "Symbols", "Stations", "Observations", "Variables",
     "MunicipalHourlyForecast"}

\* C19: a call of do hands at most one request to the HTTP client, and
\* hands none after any failure, whatever do goes on to return; every
\* endpoint function has called its DoFunc exactly once, with GET, by the
\* time it returns, whether the DoFunc failed or not.
C19_SingleRequest ==
    /\ requests <= 1
    /\ requests = CountStep(steps, "send")
    /\ (pc = "done" /\ ~ret.isNil) => requests = CountStep(steps, "send") /\ requests <= 1
    /\ ep.fn \in EndpointFunctions =>
          /\ Len(ep.doCalls) <= 1
          /\ ep.pc # "idle" =>
                /\ Len(ep.doCalls) = 1
                /\ ep.doCalls[1].method = Bytes("GET")
          /\ (ep.doFunc = "client" /\ ep.pc = "returned") =>
                /\ requests = 1
                /\ method = Bytes("GET")

\* C19 witness: Observations returned the error of its DoFunc after one
\* GET call of it
C19_Witness ==
    /\ ep.fn = "Observations"
    /\ ep.pc = "returned"
    /\ ~ep.err.isNil
    /\ ep.doCalls = <<[method |-> Bytes("GET"),
                       resource |-> Bytes("/xema/v1/estacions/mesurades/CC/2024/12/31")]>>

\* The client's Regions failed on a response and made one request
C19_WitnessClient ==
    /\ ep.fn = "Regions"
    /\ ep.doFunc = "client"
    /\ ep.pc = "returned"
    /\ ep.err = APIError(404, Bytes("Station not found"))
    /\ requests = 1

\* C20: whenever the DoFunc returns an error, the endpoint function
\* returns that very error and its zero result (a nil list, an empty
\* MunicipalityHourlyForecast), whatever the DoFunc left in the target.
C20_ErrorZeroResult ==
    (ep.fn \in EndpointFunctions /\ ep.pc = "returned" /\ ~ep.doErr.isNil) =>
        /\ ep.err = ep.doErr
        /\ ep.result = IF ep.fn = "MunicipalHourlyForecast"
                       THEN [MunicipalityCode |-> <<>>, Days |-> <<>>]
                       ELSE [isNil |-> TRUE, items |-> <<>>]

\* C20 witness: the DoFunc of MunicipalHourlyForecast wrote a municipality
\* code into the target and failed; the function returned the error and an
\* empty forecast
C20_Witness ==
    /\ ep.fn = "MunicipalHourlyForecast"
    /\ ep.pc = "returned"
    /\ ep.doFunc = "mock"
    /\ ep.target.MunicipalityCode = Bytes("250019")
    /\ ep.doErr = APIError(401, BodyInvalidKey)
    /\ ep.err = ep.doErr
    /\ ep.result = EmptyForecast

\* The client's do decoded a part of a region list into the target of
\* Regions and failed; Regions returned a nil list
C20_WitnessClient ==
    /\ ep.fn = "Regions"
    /\ ep.doFunc = "client"
    /\ ep.pc = "returned"
    /\ ~ep.target.isNil
    /\ ~ep.doErr.isNil
    /\ ep.result = NilRegionList

----------------------------------------------------------------------------
(* Properties of the success decode                                        *)

\* The body is the given text
DecodeBodyIs(text) == call.resp.Body.data = Bytes(text)

\* do returned the decode failure with the parser message msg
DecodeFailedWith(msg) ==
    call.result.ret = APIError(call.resp.StatusCode, Bytes("unmarshal response: ") \o msg)

\* C21: for a 2xx response with a non-empty body and a JSON-like content
\* type, do returns nil exactly when json.Unmarshal into the target
\* returned no error; every failure of it, a timestamp that no layout
\* accepts among them, comes back as an error whose code is the HTTP status
\* and whose message is "unmarshal response: " and the parser's message.
C21_DecodeFailure ==
    (call.fn = "do" /\ call.stage = "done") =>
        /\ call.result.ret.isNil <=> Unmarshal(call.resp.Body.data, call.target).err = ""
        /\ ~call.result.ret.isNil =>
              /\ call.result.ret.Code = call.resp.StatusCode
              /\ HasPrefixAt(call.result.ret.Message, 1, Bytes("unmarshal response: "))
              /\ Len(call.result.ret.Message) > Len(Bytes("unmarshal response: "))
        /\ DecodeBodyIs("{\"valor\":\"16.9\",\"data\":\"2020-13-01T00:00Z\"}") =>
              DecodeFailedWith(Bytes("parse time \"2020-13-01T00:00Z\""))
        /\ DecodeBodyIs("{\"data\":\"yesterday\",\"valor\":16.90}") =>
              DecodeFailedWith(Bytes("parse time \"yesterday\""))
        /\ DecodeBodyIs("{\"valor\":true,\"data\":\"\"}") =>
              DecodeFailedWith(Bytes("parse time \"\""))
        /\ DecodeBodyIs("{\"valor\":null,\"data\":1597881600}") =>
              DecodeFailedWith(JSONErrText("type"))
        /\ DecodeBodyIs("<html>") => DecodeFailedWith(JSONErrText("syntax"))
        /\ DecodeBodyIs("[1]") => DecodeFailedWith(JSONErrText("type"))
        /\ DecodeBodyIs("{\"valor\":\"16.9\",\"data\":\"1992-05-11T15:30Z\"}") =>
              call.result.ret.isNil

\* C21 witness: a 201 response whose timestamp has month 13 came back as
\* code 201 with the timestamp parser's message
C21_Witness ==
    /\ call.fn = "do"
    /\ call.stage = "done"
    /\ call.resp.StatusCode = 201
    /\ DecodeBodyIs("{\"valor\":\"16.9\",\"data\":\"2020-13-01T00:00Z\"}")
    /\ call.result.ret
         = APIError(201, Bytes("unmarshal response: parse time \"2020-13-01T00:00Z\""))

----------------------------------------------------------------------------
(* Properties of the order of do's steps                                   *)

\* The calls do makes, in its order, before it handles the response
StepOrder == <<"validate", "prepare", "send", "read", "normalize">>

\* steps without the deferred drain and close
CoreSteps == IF steps # <<>> /\ steps[Len(steps)] = "deferred"
             THEN SubSeq(steps, 1, Len(steps) - 1) ELSE steps

\* s follows the order: a prefix of StepOrder, or all of it and then one
\* of the two decodes
InStepOrder(s) ==
    \/ Len(s) <= Len(StepOrder) /\ s = SubSeq(StepOrder, 1, Len(s))
    \/ s \in {Append(StepOrder, "handleError"), Append(StepOrder, "handleSuccess")}

\* do's error has a message that starts with text
ErrorStartsWith(text) == ~ret.isNil /\ HasPrefixAt(ret.Message, 1, Bytes(text))

\* C22: do makes its calls in one order (validate, build and send the
\* request, read the body within the limit, normalize the charset, then
\* decode the error or the success by the status); the first call that
\* fails sets the error do returns, and after it no call but the deferred
\* drain and close is made, so a body that is too large or a charset that
\* is not supported is reported without the status being classified.
C22_FixedOrder ==
    /\ [](/\ InStepOrder(CoreSteps)
          /\ ~HasStep(CoreSteps, "deferred")
          /\ (pc = "done" /\ ErrorStartsWith("response body too large")) =>
                CoreSteps = SubSeq(StepOrder, 1, 4)
          /\ (pc = "done" /\ ErrorStartsWith("read response")) =>
                CoreSteps = SubSeq(StepOrder, 1, 4)
          /\ (pc = "done" /\ ErrorStartsWith("unsupported charset")) => CoreSteps = StepOrder
          /\ (pc = "done" /\ ErrorStartsWith("request to METEOCAT API")) =>
                steps = SubSeq(StepOrder, 1, 3)
          /\ (pc = "done" /\ ret.isNil) => CoreSteps = Append(StepOrder, "handleSuccess"))
    /\ [][(~ret.isNil /\ pc # "idle") =>
             /\ ret' = ret
             /\ respBytes' = respBytes
             /\ out' = out
             /\ steps' = Append(steps, "deferred")
             /\ pc' = "done"]_vars

\* C22 witness: a 404 response with a body over the limit returned the
\* too-large error after the read, with no normalization and no look at
\* the status
C22_Witness ==
    /\ pc = "done"
    /\ resp.StatusCode = 404
    /\ Len(resp.Body.data) > c.maxResponseBody
    /\ ErrorStartsWith("response body too large")
    /\ steps = <<"validate", "prepare", "send", "read", "deferred">>

----------------------------------------------------------------------------
(* Properties of the response body's drain and close                       *)

\* C23: whenever do has returned after httpClient.Do gave it a response,
\* whatever it returns, the body has been read to its end (end of stream
\* or a read error) and closed exactly once, and the close is the last
\* thing do does; when do has returned without a response, no byte was
\* read and nothing was closed.
C23_DrainedAndClosed ==
    /\ bodyClosed <= 1
    /\ (pc # "done" /\ pc # "idle") => bodyClosed = 0
    /\ (pc = "done" /\ hasResp) =>
          /\ bodyEnded
          /\ bodyPos = Len(resp.Body.data)
          /\ bodyClosed = 1
          /\ steps[Len(steps)] = "deferred"
          /\ CountStep(steps, "deferred") = 1
    /\ (pc = "done" /\ ~hasResp) =>
          /\ bodyClosed = 0
          /\ bodyPos = 0
          /\ ~bodyEnded
          /\ ~HasStep(steps, "deferred")

\* C23 witness: a body two bytes over the limit was refused as too large,
\* and had been read to its end, past the limit, and closed once when do
\* returned
C23_Witness ==
    /\ pc = "done"
    /\ hasResp
    /\ ErrorStartsWith("response body too large")
    /\ Len(resp.Body.data) = c.maxResponseBody + 2
    /\ bodyPos = c.maxResponseBody + 2
    /\ bodyEnded
    /\ bodyClosed = 1

----------------------------------------------------------------------------
(* Properties of a body read that fails part-way                           *)

\* C24: when the read of the response body ends with an error (the
\* caller's context cancelled or timed out mid-read), do returns the read
\* error at once: the bytes read so far are dropped, and no normalization,
\* no status classification and no JSON decoding is done on them; the
\* target stays as passed.
C24_PartialReadDiscarded ==
    (BodyReadFailed /\ pc \in {"normalize", "classify", "deferred", "done"}) =>
        /\ pc \in {"deferred", "done"}
        /\ ret = APIError(resp.StatusCode, Bytes("read response: ") \o resp.Body.errText)
        /\ respBytes = <<>>
        /\ CoreSteps = <<"validate", "prepare", "send", "read">>
        /\ ~HasStep(steps, "normalize")
        /\ ~HasStep(steps, "handleError")
        /\ ~HasStep(steps, "handleSuccess")
        /\ ~decoded
        /\ out = outArg

\* C24 witness: the context was cancelled after the bytes of a valid
\* region list had arrived in a 200 JSON response; do returned the read
\* error and decoded nothing
C24_Witness ==
    /\ pc = "done"
    /\ resp.StatusCode = 200
    /\ resp.ContentType = Bytes("application/json")
    /\ resp.Body.data = BodyRegions
    /\ resp.Body.fails
    /\ bodyPos = Len(BodyRegions)
    /\ ret = APIError(200, Bytes("read response: context canceled"))
    /\ respBytes = <<>>
    /\ out = outArg
    /\ out.kind = "ptr"

----------------------------------------------------------------------------
(* Properties of MeteocatTime.UnmarshalJSON                                *)

\* The wire value is the JSON string of text
TimeInputIs(text) == call.input = <<34>> \o Bytes(text) \o <<34>>

\* The text between the quotes of the wire value
TimeInputText == SubSeq(call.input, 2, Len(call.input) - 1)

\* UnmarshalJSON returned no error and stored the instant that reads days,
\* sec on a UTC clock, with the given zone offset
TimeDecodedAs(days, sec, offset) ==
    /\ call.stage = "decoded"
    /\ call.err = ""
    /\ call.m = [days |-> days, sec |-> sec, nsec |-> 0, offset |-> offset]

\* UnmarshalJSON returned the error that names the text
TimeFailedNaming(text) ==
    /\ call.stage = "failed"
    /\ call.errText = Bytes("parse time \"") \o Bytes(text) \o Bytes("\"")

\* C25: UnmarshalJSON of a JSON string stores the instant of the first of
\* the layouts RFC3339, "2006-01-02T15:04Z", "2006-01-02T15:04:05Z" that
\* parses its text, and when none parses it returns the error
\* parse time "<text>" and stores nothing.
C25_LayoutOrder ==
    (call.fn = "MeteocatTime" /\ call.stage \in {"decoded", "failed"} /\ call.input[1] = 34) =>
        /\ ParseRFC3339(TimeInputText).ok =>
              call.err = "" /\ call.m = ParseRFC3339(TimeInputText).t
        /\ (~ParseRFC3339(TimeInputText).ok /\ ParseMinuteZ(TimeInputText).ok) =>
              call.err = "" /\ call.m = ParseMinuteZ(TimeInputText).t
        /\ (~ParseRFC3339(TimeInputText).ok /\ ~ParseMinuteZ(TimeInputText).ok
              /\ ParseSecondZ(TimeInputText).ok) =>
              call.err = "" /\ call.m = ParseSecondZ(TimeInputText).t
        /\ (~ParseRFC3339(TimeInputText).ok /\ ~ParseMinuteZ(TimeInputText).ok
              /\ ~ParseSecondZ(TimeInputText).ok) =>
              /\ call.stage = "failed"
              /\ call.errText = Bytes("parse time ") \o Quote(TimeInputText)
              /\ Contains(call.errText, TimeInputText)
              /\ call.m = call.prior
        /\ TimeInputIs("1992-05-11T15:30Z") => TimeDecodedAs(DaysOf(1992, 5, 11), 55800, 0)
        /\ TimeInputIs("2020-08-20T00:00Z") => TimeDecodedAs(DaysOf(2020, 8, 20), 0, 0)
        /\ TimeInputIs("2020-08-20T23:59:59Z") => TimeDecodedAs(DaysOf(2020, 8, 20), 86399, 0)
        /\ TimeInputIs("2020-08-20T23:59:59+02:00") =>
              TimeDecodedAs(DaysOf(2020, 8, 20), 79199, 7200)
        /\ TimeInputIs("2020-08-20T00:00:00-05:30") =>
              TimeDecodedAs(DaysOf(2020, 8, 20), 19800, 0 - 19800)
        /\ TimeInputIs("2024-02-29T15:30Z") => TimeDecodedAs(DaysOf(2024, 2, 29), 55800, 0)
        /\ TimeInputIs("2020-08-20T15:30+02:00") => TimeFailedNaming("2020-08-20T15:30+02:00")
        /\ TimeInputIs("2020-08-20T15:30") => TimeFailedNaming("2020-08-20T15:30")
        /\ TimeInputIs("2023-02-29T15:30Z") => TimeFailedNaming("2023-02-29T15:30Z")
        /\ TimeInputIs("2020-13-01T00:00:00Z") => TimeFailedNaming("2020-13-01T00:00:00Z")
        /\ TimeInputIs("2020-08-20T24:00Z") => TimeFailedNaming("2020-08-20T24:00Z")

\* C25 witness: a text with minute precision, which RFC3339 does not
\* parse, was decoded by the second layout
C25_Witness ==
    /\ call.fn = "MeteocatTime"
    /\ TimeInputIs("1992-05-11T15:30Z")
    /\ ~ParseRFC3339(TimeInputText).ok
    /\ TimeDecodedAs(DaysOf(1992, 5, 11), 55800, 0)

----------------------------------------------------------------------------
(* Properties of MeteocatTime and JSON null                                *)

\* C26 as stated: decoding JSON null into a MeteocatTime gives the zero
\* instant and no error, whatever the receiver held before, and encoding a
\* zero instant gives JSON null.
C26_NullZero ==
    /\ (call.fn = "MeteocatTime" /\ call.stage # "start" /\ call.input = JSONNull) =>
          /\ call.err = ""
          /\ IsZero(call.m)
    /\ (call.fn = "MeteocatTime" /\ call.stage \in {"encoded", "redecoded"} /\ IsZero(call.m)) =>
          call.encoded = JSONNull

----------------------------------------------------------------------------
(* Properties of StringOrFloat64.UnmarshalJSON                             *)

\* d is the token of a JSON string
IsStringToken(d) == d # <<>> /\ d[1] = 34 /\ ParseJSON(d).ok /\ ParseJSON(d).val.t = "str"

\* d is the token of a JSON number
IsNumberToken(d) == d # <<>> /\ NumberEnd(d, 1) = Len(d) + 1

\* What the decode of a token that is neither empty, nor null, nor a
\* string holds: the default text of a number, the token itself otherwise
ScalarNumberOrRaw(d, text) ==
    /\ IsNumberToken(d) =>
          /\ text = FormatV(ParseFloat(d))
          /\ IsNumberToken(text)
    /\ ~IsNumberToken(d) => text = d

\* The facts about single tokens that both readings of C27 share
ScalarAnchors ==
    /\ call.input = Bytes("\"x\"") => call.fromBare = Bytes("x")
    /\ call.input = Bytes("16.90") => call.fromBare = Bytes("16.9")
    /\ call.input = Bytes("1e3") => call.fromBare = Bytes("1000")
    /\ call.input = Bytes("1.5e-7") => call.fromBare = Bytes("1.5e-07")
    /\ call.input = Bytes("true") => call.fromBare = Bytes("true")
    /\ call.input = Bytes("01") => call.fromBare = Bytes("01")
    /\ call.input = Bytes("{\"a\":1}") => call.fromBare = Bytes("{\"a\":1}")

\* C27 (as amended): UnmarshalJSON stores a text for every wire token and
\* never fails: "0" for the empty token; the string's value for a JSON
\* string; the empty text for JSON null, which string decoding accepts; the
\* default text of the number for a JSON number; and the token's bytes
\* themselves for everything else.
C27_Total ==
    (call.fn = "StringOrFloat64" /\ call.stage # "start" /\ call.stage # "string") =>
        /\ call.fromString = call.input
        /\ call.input = <<>> => call.fromBare = <<48>>
        /\ IsStringToken(call.input) => call.fromBare = ParseJSON(call.input).val.s
        /\ call.input = JSONNull => call.fromBare = <<>>
        /\ (call.input # <<>> /\ ~IsStringToken(call.input) /\ call.input # JSONNull) =>
              ScalarNumberOrRaw(call.input, call.fromBare)
        /\ ScalarAnchors

\* C27 witness: the token 01, which is no JSON value, was stored as the
\* text 01
C27_Witness ==
    /\ call.fn = "StringOrFloat64"
    /\ call.stage = "bare"
    /\ call.input = Bytes("01")
    /\ ~ParseJSON(call.input).ok
    /\ call.fromBare = Bytes("01")

\* C27 as stated: the string value if the token is a JSON string, else
\* the default text of the number if it is a number, else the raw token
\* bytes; "0" for the empty token.
C27_Original ==
    (call.fn = "StringOrFloat64" /\ call.stage # "start" /\ call.stage # "string") =>
        /\ call.input = <<>> => call.fromBare = <<48>>
        /\ IsStringToken(call.input) => call.fromBare = ParseJSON(call.input).val.s
        /\ (call.input # <<>> /\ ~IsStringToken(call.input)) =>
              ScalarNumberOrRaw(call.input, call.fromBare)

----------------------------------------------------------------------------
(* Properties of do's check of its target                                  *)

\* The caller passed no usable target: nil, a value that is no pointer, or
\* a nil pointer
InvalidTarget == pc # "idle" /\ outArg.kind \in {"nil", "nonptr", "nilptr"}

\* C28: when out is nil, not a pointer, or a nil pointer, do returns an
\* error with code 0 right after validateHTTPOut; no request is built and
\* none reaches the transport, at any moment of the call.
C28_InvalidTarget ==
    InvalidTarget =>
        /\ requests = 0
        /\ ~hasResp
        /\ pc \in {"validate", "done"}
        /\ ~HasStep(steps, "prepare")
        /\ ~HasStep(steps, "send")
        /\ pc = "done" =>
              /\ steps = <<"validate">>
              /\ ~ret.isNil
              /\ ret.Code = 0
              /\ ret.Message = IF outArg.kind = "nil"
                               THEN Bytes("no output provided")
                               ELSE Bytes("out must be a non-nil pointer")
              /\ out = outArg

\* C28 witness: do called with GET and a nil pointer returned the code-0
\* error with no request made
C28_Witness ==
    /\ pc = "done"
    /\ method = Bytes("GET")
    /\ outArg.kind = "nilptr"
    /\ ret = APIError(0, Bytes("out must be a non-nil pointer"))
    /\ requests = 0
    /\ steps = <<"validate">>

----------------------------------------------------------------------------
(* Properties of the encoding normalizeJSONBytes returns                   *)

\* The Content-Type header cannot be parsed as a media type
UnparseableContentType(ct) == ct # <<>> /\ ParseMediaType(ct).err

\* C29: whenever normalizeJSONBytes returns without error, for every
\* Content-Type header and every input, the bytes it returns are valid UTF-8;
\* a header that cannot be parsed as a media type is handled as one that
\* declares no charset, so it never yields an error.
C29_ValidUTF8 ==
    norm.called =>
        /\ norm.result.err.isNil => Utf8Valid(norm.result.bytes)
        /\ UnparseableContentType(norm.contentType) =>
              /\ norm.result.err.isNil
              /\ norm.result = normalizeJSONBytes(<<>>, norm.input)

\* normalizeJSONBytes was given bytes that are not UTF-8 under a header that
\* cannot be parsed, and returned their Latin-1 reading as UTF-8
C29_Witness ==
    /\ norm.called
    /\ UnparseableContentType(norm.contentType)
    /\ norm.input = <<65, 233>>
    /\ ~Utf8Valid(norm.input)
    /\ norm.result.err.isNil
    /\ norm.result.bytes = <<65, 195, 169>>
    /\ Utf8Valid(norm.result.bytes)

----------------------------------------------------------------------------
(* Properties of what do writes to its target                              *)

\* do returned the error of a json.Unmarshal of a 2xx body into out
UnmarshalFailureOf2xx ==
    /\ HasStep(steps, "handleSuccess")
    /\ ~(resp.StatusCode < StatusOK \/ resp.StatusCode >= StatusMultipleChoices)
    /\ ErrorStartsWith("unmarshal response: ")

\* The caller's target held a value before the call
TargetPreFilled == outArg.kind = "ptr" /\ ~outArg.val.isNil /\ outArg.val.items # <<>>

\* C30: whenever do returns an error that is not a JSON unmarshal failure of
\* a 2xx body, the target out is exactly as the caller passed it; and the only
\* step of do that ever changes out is the json.Unmarshal of a non-empty JSON
\* 2xx body in handleSuccessResponse.
C30_TargetFrame ==
    /\ [](/\ (pc = "done" /\ ~ret.isNil /\ ~UnmarshalFailureOf2xx) => out = outArg
          /\ (pc # "idle" /\ ~decoded) => out = outArg)
    /\ [][(pc # "idle" /\ out' # out) =>
              /\ pc = "classify"
              /\ ~(resp.StatusCode < StatusOK \/ resp.StatusCode >= StatusMultipleChoices)
              /\ isJSONContent(resp.ContentType)
              /\ respBytes # <<>>
              /\ ~decoded /\ decoded'
              /\ steps' = Append(steps, "handleSuccess")]_vars

\* do returned the error of a non-2xx status to a caller whose target held a
\* value, and the target still holds it
C30_Witness ==
    /\ pc = "done"
    /\ TargetPreFilled
    /\ HasStep(steps, "handleError")
    /\ ~ret.isNil
    /\ ret.Code = resp.StatusCode
    /\ respBytes # <<>>
    /\ ~decoded
    /\ out = outArg

\* do returned an unexpected content-type error for a 2xx body to a caller whose
\* target held a value, and the target still holds it
C30_WitnessSuccessPath ==
    /\ pc = "done"
    /\ TargetPreFilled
    /\ HasStep(steps, "handleSuccess")
    /\ ErrorStartsWith("unexpected content-type")
    /\ out = outArg

\* do returned an unmarshal failure of a 2xx body and the target has changed
C30_WitnessDecodeWrites ==
    /\ pc = "done"
    /\ UnmarshalFailureOf2xx
    /\ out # outArg

====
